---- MODULE Spec2Model ----
(***************************************************************************)
(* A model of w32-pth.c, the GNU Pth emulation for MS Windows: the event   *)
(* ring (pth_event, pth_event_concat, pth_event_isolate, pth_event_free)   *)
(* and the wait multiplexer (do_pth_wait) on top of the host's waitable    *)
(* objects (events, waitable timers, socket network events).               *)
(***************************************************************************)
EXTENDS Integers, Sequences, FiniteSets, TLC

(* ------------------------------------------------------------------ *)
(* Bounds of the model.                                                 *)
(* ------------------------------------------------------------------ *)
\* Events the caller of the ring specification keeps allocated at once.
NumEvents == 3
\* Events the caller of the wait specification keeps allocated at once.
NumWaitEvents == 2
\* Raw host event handles a caller can hand to PTH_EVENT_HANDLE events.
NumRaw == 1
\* Threads the main thread spawns.
NumSpawn == 2

(* ------------------------------------------------------------------ *)
(* Program constants.                                                   *)
(* ------------------------------------------------------------------ *)
\* The null pointer (an absent event).
NULL == 0
\* The host's multi-wait limit; do_pth_wait sizes its arrays with half of it.
MAXIMUM_WAIT_OBJECTS == 64
\* Capacity of an fd_set and of the probe list of a SELECT event.
FD_SETSIZE == 64
\* pth_signo: the last signal number; the handler that sets it is compiled
\* out, so it keeps the value pth_init gives it.
pth_signo == 0
\* Width of long, of DWORD and of unsigned long on the W32 targets.
LongBits == 32

PTH_STATUS_PENDING == "PENDING"
PTH_STATUS_OCCURRED == "OCCURRED"

\* The event kinds (u_type); "NONE" is the u_type 0 that spec == 0 leaves.
Kinds == {"NONE", "HANDLE", "SIGS", "FD", "TIME", "MUTEX", "SELECT"}

(* ------------------------------------------------------------------ *)
(* Host objects.  A handle is a pair <<class, number>>.                 *)
(* ------------------------------------------------------------------ *)
NullHandle == <<"null", 0>>
\* pth_signo_ev, the global signal event created by pth_init.
pth_signo_ev == <<"sig", 0>>
EvtHandle(n) == <<"evt", n>>
TmrHandle(n) == <<"tmr", n>>
RawHandle(k) == <<"raw", k>>
SockEvent(n) == <<"sock", n>>
RawHandles == {RawHandle(k) : k \in 1..NumRaw}

\* Descriptors: sockets, one pipe served by the I/O backend, one plain file.
Sockets == {1, 2, 3}
PipeFds == {4}
FileFds == {5}
Fds == Sockets \cup PipeFds \cup FileFds

VARIABLES
  ev,        \* the allocated events: id -> struct pth_event_s
  objects,   \* the open host objects (handles)
  signaled,  \* the host objects that are in the signaled state
  timers,    \* timer handle -> [armed, ms]: the waitable timers
  net,       \* socket -> [hd, mask, rec]: WSAEventSelect registration and record
  ready,     \* socket -> the network conditions that currently hold
  w_pc,      \* position of the caller inside do_pth_wait
  w_ev,      \* do_pth_wait: its argument
  waitbuf,   \* do_pth_wait: the handles passed to WaitForMultipleObjects
  evarray,   \* do_pth_wait: the event owning each slot of waitbuf
  w_n,       \* do_pth_wait: what WaitForMultipleObjects returned
  w_pre,     \* history: the state the wait was called in (see NoHistory)
  w_env,     \* history: objects signaled by the host during the current wait
  op,        \* the last library call that returned: [name, arg]
  ret,       \* its return value
  io,        \* the frame of a compound call (pth_read_ev, pth_sleep, ...)
  th,        \* thread -> [pc, fn, reg, ok, arg]: where each thread stands
  gate,      \* pth_shd, the critical section: [owner, count]
  thread_counter,  \* the static int thread_counter
  mutex,     \* the native mutex of a pth_mutex_t: [owner, count, abandoned]
  hist       \* history: what the calls of the threads reported

ringVars == <<ev>>
hostVars == <<objects, signaled, timers, net, ready>>
waitVars == <<w_pc, w_ev, waitbuf, evarray, w_n, w_pre, w_env>>
callVars == <<op, ret>>
threadVars == <<th, gate, thread_counter, mutex, hist>>
vars == <<ev, objects, signaled, timers, net, ready,
          w_pc, w_ev, waitbuf, evarray, w_n, w_pre, w_env, op, ret,
          io, th, gate, thread_counter, mutex, hist>>

\* The events, the host objects and the frame of do_pth_wait.
eventVars == <<ev, objects, signaled, timers, net, ready,
               w_pc, w_ev, waitbuf, evarray, w_n, w_pre, w_env, op, ret>>

\* A step of a caller that makes no compound call and runs no second
\* thread.
Quiet == UNCHANGED <<io, th, gate, thread_counter, mutex, hist>>

\* What is kept of the state a wait was called in: the events and the host
\* objects, their signaled states, the timers and the registrations.
NoHistory ==
  [ev |-> << >>, objects |-> {}, signaled |-> {}, timers |-> << >>, net |-> << >>]

\* do_pth_wait is not running: its frame (and the history kept of it) is
\* gone when the caller makes its next call.
NoWaitFrame ==
  /\ w_pc' = "idle"
  /\ w_ev' = NULL
  /\ waitbuf' = << >>
  /\ evarray' = << >>
  /\ w_n' = "NONE"
  /\ w_pre' = NoHistory
  /\ w_env' = {}

(* ------------------------------------------------------------------ *)
(* Ring walking.                                                        *)
(* ------------------------------------------------------------------ *)
\* The nodes met by following next from n, in order, up to the first node met
\* twice (on a ring: up to the return to n), as the do-while walks of
\* event_count and do_pth_wait visit them.
RECURSIVE WalkFrom(_, _, _)
WalkFrom(E, cur, acc) ==
  IF cur \notin DOMAIN E \/ (\E i \in 1..Len(acc) : acc[i] = cur)
  THEN acc
  ELSE WalkFrom(E, E[cur].next, Append(acc, cur))

RingSeq(E, n) == WalkFrom(E, n, <<>>)
RingOf(E, n) == LET s == RingSeq(E, n) IN {s[i] : i \in 1..Len(s)}

event_count(E, e) == IF e = NULL THEN 0 ELSE Len(RingSeq(E, e))

\* calloc: the lowest free cell (a freed cell is handed out again).
NewId(E) == CHOOSE i \in 1..(Cardinality(DOMAIN E) + 1) :
              /\ i \notin DOMAIN E
              /\ \A j \in 1..(i - 1) : j \in DOMAIN E


(* ------------------------------------------------------------------ *)
(* Host calls.                                                          *)
(* ------------------------------------------------------------------ *)
\* The network events FD_READ|FD_ACCEPT, FD_WRITE and FD_OOB|FD_CLOSE.
NetRead == {"READ", "ACCEPT"}
NetWrite == {"WRITE"}
NetExcept == {"OOB", "CLOSE"}

NoReg == [hd |-> NullHandle, mask |-> {}, rec |-> {}]

\* WSAEventSelect (fd, h, mask) on host state H (see HostRec): fails
\* on a descriptor that is no socket; otherwise replaces the registration of
\* the socket, clears its event record, records the selected conditions that
\* hold already and then signals h.
WSAEventSelect(H, fd, h, mask) ==
  IF fd \notin Sockets
  THEN [H EXCEPT !.ok = FALSE]
  ELSE LET rec == H.ready[fd] \cap mask
       IN [H EXCEPT !.ok = TRUE,
                    !.net[fd] = [hd |-> h, mask |-> mask, rec |-> rec],
                    !.signaled = IF rec # {} /\ h # NullHandle
                                 THEN @ \cup {h} ELSE @]

INVALID_HANDLE_VALUE == <<"invalid", 0>>

\* _pth_get_reader_ev with a backend that has a readiness event for every
\* descriptor.
pth_get_reader_ev_Any(fd) == <<"rd", fd>>

\* _pth_get_reader_ev / _pth_get_writer_ev of the I/O backend: the readiness
\* event of a descriptor the backend serves, INVALID_HANDLE_VALUE otherwise.
pth_get_reader_ev(fd) == IF fd \in PipeFds THEN <<"rd", fd>> ELSE INVALID_HANDLE_VALUE
pth_get_writer_ev(fd) == IF fd \in PipeFds THEN <<"wr", fd>> ELSE INVALID_HANDLE_VALUE
BackendHandles == {<<"rd", fd>> : fd \in PipeFds} \cup {<<"wr", fd>> : fd \in PipeFds}

\* fd_is_socket: a descriptor of the backend is no socket; for the others
\* getsockopt decides.
fd_is_socket(fd) ==
  IF pth_get_reader_ev(fd) # INVALID_HANDLE_VALUE
     \/ pth_get_writer_ev(fd) # INVALID_HANDLE_VALUE
  THEN FALSE
  ELSE fd \in Sockets

(* ------------------------------------------------------------------ *)
(* Event construction.                                                  *)
(* ------------------------------------------------------------------ *)
\* One item of the probe list: struct fdarray_item_s.
FdItem(fd, netevents) == [fd |-> fd, netevents |-> netevents]

\* build_fdarray: add the descriptors of fds (a sequence, NULL being the
\* empty one) to fdarray, merging the network events of a descriptor that
\* is in the list already.
RECURSIVE build_fdarray_range(_, _, _, _, _)
build_fdarray_range(fdarray, fds, netevents, lo, hi) ==
  IF lo > hi THEN fdarray
  ELSE IF lo = hi
  THEN LET fd == fds[lo]
           hit == {j \in 1..Len(fdarray) : fdarray[j].fd = fd}
       IN IF hit # {}
          THEN LET j == CHOOSE k \in hit : \A l \in hit : k <= l
               IN [fdarray EXCEPT ![j].netevents = @ \cup netevents]
          ELSE IF Len(fdarray) < FD_SETSIZE
               THEN Append(fdarray, FdItem(fd, netevents))
               ELSE fdarray
  ELSE LET mid == (lo + hi) \div 2
           first == build_fdarray_range(fdarray, fds, netevents, lo, mid)
       IN IF Len(first) >= 0
          THEN build_fdarray_range(first, fds, netevents, mid + 1, hi)
          ELSE first

\* for (i=0; i < fds->fd_count; i++): the loop of build_fdarray over the
\* whole of fds.
build_fdarray(fdarray, fds, netevents) ==
  build_fdarray_range(fdarray, fds, netevents, 1, Len(fds))

\* The three fd_set pointers of a SELECT event and the int its rc points to;
\* has holds the pointers that are not NULL.
NoSel == [has |-> {}, rfds |-> <<>>, wfds |-> <<>>, efds |-> <<>>, rc |-> -1]
SelSet(sel, which) ==
  IF which \notin sel.has THEN <<>>
  ELSE IF which = "r" THEN sel.rfds ELSE IF which = "w" THEN sel.wfds ELSE sel.efds

\* The node calloc returns and the first assignments of do_pth_event_body.
NewEvent(id, hd) ==
  [next |-> id, prev |-> id, hd |-> hd, u_type |-> "NONE", flags |-> {},
   status |-> PTH_STATUS_PENDING, fd |-> 0, tv |-> <<0, 0>>, sel |-> NoSel,
   signo |-> -1]

\* The WSAEventSelect loop of the SELECT branch of do_pth_event_body for
\* i = lo .. hi, in order: the first half of the range, then the second.
RECURSIVE SelectRegisterRange(_, _, _, _, _)
SelectRegisterRange(H, fdarray, hd, lo, hi) ==
  IF lo > hi THEN H
  ELSE IF lo = hi
  THEN WSAEventSelect(H, fdarray[lo].fd, hd, fdarray[lo].netevents)
  ELSE LET mid == (lo + hi) \div 2
           first == SelectRegisterRange(H, fdarray, hd, lo, mid)
       IN IF first.ok \in BOOLEAN
          THEN SelectRegisterRange(first, fdarray, hd, mid + 1, hi)
          ELSE first

\* for (i=0; i < nfdarray; i++) WSAEventSelect (fdarray[i].fd, ev->hd,
\* fdarray[i].netevents).
SelectRegister(H, fdarray, hd) == SelectRegisterRange(H, fdarray, hd, 1, Len(fdarray))

\* The host state as one value, for the operators that thread it through
\* a loop; ok is the result of the last host call.
HostRec == [objects |-> objects, signaled |-> signaled, timers |-> timers,
            net |-> net, ready |-> ready, ok |-> TRUE]

\* do_pth_event_body (spec, arg) with spec = [kind, mods]; host tells which
\* allocation the host refuses ("none", "calloc", "handle").
do_pth_event_body(spec, arg, host) ==
  IF spec.mods \cap {"CHAIN", "REUSE"} # {} \/ host = "calloc"
  THEN /\ ret' = NULL
       /\ UNCHANGED <<ev, objects, signaled, timers, net>>
  ELSE
  LET id == NewId(ev)
      hd0 == IF spec.kind = "HANDLE" THEN NullHandle
             ELSE IF spec.kind = "TIME" THEN TmrHandle(id) ELSE EvtHandle(id)
  IN
  IF spec.kind # "HANDLE" /\ host = "handle"
  THEN /\ ret' = NULL
       /\ UNCHANGED <<ev, objects, signaled, timers, net>>
  ELSE
  LET e0 == [NewEvent(id, hd0) EXCEPT
               !.flags = IF "STATIC" \in spec.mods THEN {"STATIC"} ELSE {}]
      e1 == CASE spec.kind = "NONE"   -> e0
             [] spec.kind = "HANDLE" -> [e0 EXCEPT !.u_type = "HANDLE", !.hd = arg]
             [] spec.kind = "SIGS"   -> [e0 EXCEPT !.u_type = "SIGS", !.signo = arg]
             [] spec.kind = "FD"     ->
                  [e0 EXCEPT !.u_type = "FD", !.fd = arg,
                             !.flags = IF "READABLE" \in spec.mods
                                       THEN @ \cup {"READABLE"} ELSE @]
             [] spec.kind = "TIME"   -> [e0 EXCEPT !.u_type = "TIME", !.tv = arg]
             [] spec.kind = "MUTEX"  -> [e0 EXCEPT !.u_type = "MUTEX"]
             [] spec.kind = "SELECT" -> [e0 EXCEPT !.u_type = "SELECT", !.sel = arg]
      fdarray == IF spec.kind # "SELECT" THEN <<>>
                 ELSE build_fdarray(
                        build_fdarray(
                          build_fdarray(<<>>, SelSet(arg, "r"), NetRead),
                          SelSet(arg, "w"), NetWrite),
                        SelSet(arg, "e"), NetExcept)
      H == SelectRegister(HostRec, fdarray, hd0)
  IN /\ ev' = [i \in DOMAIN ev \cup {id} |-> IF i = id THEN e1 ELSE ev[i]]
     /\ objects' = IF spec.kind = "HANDLE" THEN objects ELSE objects \cup {hd0}
     /\ signaled' = H.signaled
     /\ timers' = IF spec.kind = "TIME"
                  THEN [h \in DOMAIN timers \cup {hd0} |->
                          IF h = hd0 THEN [armed |-> FALSE, ms |-> <<0, 0>>] ELSE timers[h]]
                  ELSE timers
     /\ net' = H.net
     /\ ret' = id

\* pth_event (spec, ...) whose do_pth_event_body returns NULL without
\* _pth_free (ev) when the host refuses the native object.
pth_event_KeepNode(spec, arg, host) ==
  /\ w_pc = "idle"
  /\ IF spec.mods \cap {"CHAIN", "REUSE"} = {} /\ spec.kind # "HANDLE" /\ host = "handle"
     THEN /\ ev' = [i \in DOMAIN ev \cup {NewId(ev)} |->
                     IF i = NewId(ev) THEN NewEvent(i, NullHandle) ELSE ev[i]]
          /\ ret' = NULL
          /\ UNCHANGED <<objects, signaled, timers, net>>
     ELSE do_pth_event_body(spec, arg, host)
  /\ op' = [name |-> "event", arg |-> <<spec, host>>]
  /\ NoWaitFrame
  /\ UNCHANGED ready

\* pth_event (spec, ...).
pth_event(spec, arg, host) ==
  /\ w_pc = "idle"
  /\ do_pth_event_body(spec, arg, host)
  /\ op' = [name |-> "event", arg |-> <<spec, host>>]
  /\ NoWaitFrame
  /\ UNCHANGED ready


(* ------------------------------------------------------------------ *)
(* Ring operations.                                                     *)
(* ------------------------------------------------------------------ *)
\* The while loop of pth_event_concat over the variable arguments (args ends
\* where the NULL terminator stands): [E, cur] is the ring memory and the
\* local ev.
RECURSIVE ConcatLoop(_, _, _)
ConcatLoop(E, cur, args) ==
  IF args = <<>> THEN [E |-> E, cur |-> cur]
  ELSE LET nxt == Head(args)
           E1 == [E EXCEPT ![cur].next = nxt]
           tmp == E1[nxt].prev
           E2 == [E1 EXCEPT ![nxt].prev = cur]
       IN ConcatLoop(E2, tmp, Tail(args))

\* pth_event_concat without its last assignment, last->prev = ev.
ConcatLinks_NoLastPrev(E, head, args) ==
  IF head = NULL THEN E
  ELSE LET last == E[head].next
           r == ConcatLoop(E, head, args)
       IN [r.E EXCEPT ![r.cur].next = last]

\* The ring memory after pth_event_concat (head, args..., NULL).
ConcatLinks(E, head, args) ==
  IF head = NULL THEN E
  ELSE LET last == E[head].next
           r == ConcatLoop(E, head, args)
           E3 == [r.E EXCEPT ![r.cur].next = last]
       IN [E3 EXCEPT ![last].prev = r.cur]

pth_event_concat(head, args) ==
  /\ w_pc = "idle"
  /\ ev' = ConcatLinks(ev, head, args)
  /\ ret' = head
  /\ op' = [name |-> "concat", arg |-> <<head, Len(args)>>]
  /\ NoWaitFrame
  /\ UNCHANGED hostVars

\* pth_event_isolate without ev->next->prev = ev->prev.
IsolateLinks_NoNextPrev(E, e) ==
  IF e = NULL THEN E
  ELSE IF E[e].next = e /\ E[e].prev = e THEN E
  ELSE LET E1 == [E EXCEPT ![E[e].prev].next = E[e].next]
           E3 == [E1 EXCEPT ![e].prev = e]
       IN [E3 EXCEPT ![e].next = e]

\* The ring memory after the pointer assignments of pth_event_isolate (e).
IsolateLinks(E, e) ==
  IF e = NULL THEN E
  ELSE IF E[e].next = e /\ E[e].prev = e THEN E
  ELSE LET E1 == [E EXCEPT ![E[e].prev].next = E[e].next]
           E2 == [E1 EXCEPT ![E1[e].next].prev = E1[e].prev]
           E3 == [E2 EXCEPT ![e].prev = e]
       IN [E3 EXCEPT ![e].next = e]

\* The value pth_event_isolate (e) returns.
IsolateResult(E, e) ==
  IF e = NULL THEN NULL
  ELSE IF E[e].next = e /\ E[e].prev = e THEN NULL
  ELSE E[e].next

pth_event_isolate(e) ==
  /\ w_pc = "idle"
  /\ ev' = IsolateLinks(ev, e)
  /\ ret' = IsolateResult(ev, e)
  /\ op' = [name |-> "isolate", arg |-> <<e>>]
  /\ NoWaitFrame
  /\ UNCHANGED hostVars

\* The nodes do_pth_event_free (e, mode) hands to _pth_free.
FreedNodes(E, e, mode) ==
  IF e = NULL THEN {}
  ELSE IF mode = "ALL" THEN RingOf(E, e)
  ELSE IF mode = "THIS" THEN {e}
  ELSE {}

\* The nodes in the order do_pth_event_free (e, mode) hands them to
\* _pth_free: the do-while loop of PTH_FREE_ALL reads cur->next before it
\* frees cur and stops at the return to e (the cut at the number of nodes
\* ends the walk on a chain that does not return).
RECURSIVE FreeWalkLoop(_, _, _, _)
FreeWalkLoop(E, e, cur, acc) ==
  LET next == E[cur].next
      acc1 == Append(acc, cur)
  IN IF next = e \/ Len(acc1) > Cardinality(DOMAIN E) THEN acc1
     ELSE FreeWalkLoop(E, e, next, acc1)

FreeWalk(E, e, mode) ==
  IF e = NULL THEN << >>
  ELSE IF mode = "ALL" THEN FreeWalkLoop(E, e, e, << >>)
  ELSE IF mode = "THIS" THEN <<e>>
  ELSE << >>

\* The handles it closes, in that order: one destroy_timer or CloseHandle
\* for each node that is no PTH_EVENT_HANDLE event.
RECURSIVE CloseWalk(_, _)
CloseWalk(E, walk) ==
  IF walk = << >> THEN << >>
  ELSE (IF E[Head(walk)].u_type # "HANDLE" THEN <<E[Head(walk)].hd>> ELSE << >>)
         \o CloseWalk(E, Tail(walk))

\* The handles do_pth_event_free closes when it closes the hd of every node.
ClosedHandles_AlsoRaw(E, e, mode) ==
  {E[n].hd : n \in FreedNodes(E, e, mode)}

\* The handles it closes: destroy_timer or CloseHandle of hd, except for a
\* PTH_EVENT_HANDLE event.
ClosedHandles(E, e, mode) ==
  {E[n].hd : n \in {m \in FreedNodes(E, e, mode) : E[m].u_type # "HANDLE"}}

\* The ring memory after do_pth_event_free (e, mode).
FreeLinks(E, e, mode) ==
  LET E1 == IF e # NULL /\ mode = "THIS"
            THEN LET Ea == [E EXCEPT ![E[e].prev].next = E[e].next]
                 IN [Ea EXCEPT ![Ea[e].next].prev = Ea[e].prev]
            ELSE E
  IN [n \in DOMAIN E \ FreedNodes(E, e, mode) |-> E1[n]]

do_pth_event_free(e, mode) ==
  LET closed == ClosedHandles(ev, e, mode)
  IN /\ ev' = FreeLinks(ev, e, mode)
     /\ objects' = objects \ closed
     /\ signaled' = signaled \ closed
     /\ timers' = [h \in DOMAIN timers \ closed |-> timers[h]]
     /\ ret' = IF e # NULL /\ mode \in {"ALL", "THIS"} THEN 1 ELSE 0

pth_event_free(e, mode) ==
  /\ w_pc = "idle"
  /\ do_pth_event_free(e, mode)
  /\ op' = [name |-> "free", arg |-> <<e, mode>>]
  /\ NoWaitFrame
  /\ UNCHANGED <<net, ready>>

\* pth_event_status (e) that also puts the event back to PENDING.
pth_event_status_Reset(e) ==
  /\ w_pc = "idle"
  /\ ret' = IF e = NULL THEN 0 ELSE ev[e].status
  /\ ev' = IF e = NULL THEN ev ELSE [ev EXCEPT ![e].status = PTH_STATUS_PENDING]
  /\ op' = [name |-> "status", arg |-> <<e>>]
  /\ NoWaitFrame
  /\ UNCHANGED hostVars

\* pth_event_status (e): 0 for NULL, else the status field of the event.
pth_event_status(e) ==
  /\ w_pc = "idle"
  /\ ret' = IF e = NULL THEN 0 ELSE ev[e].status
  /\ op' = [name |-> "status", arg |-> <<e>>]
  /\ NoWaitFrame
  /\ UNCHANGED <<ev, hostVars>>

(* ------------------------------------------------------------------ *)
(* The wait multiplexer: do_pth_wait.                                   *)
(* ------------------------------------------------------------------ *)
\* C integer division, which truncates toward zero.
CDiv(a, b) == IF a >= 0 THEN a \div b ELSE -((-a) \div b)

\* Numbers of LongBits bits and more are kept as two limbs <<hi, lo>> that
\* stand for hi * Limb + lo, with 0 <= lo < Limb.
Limb == 2 ^ (LongBits \div 2)
Wide(hi, lo) == <<hi + (lo \div Limb), lo % Limb>>
WideMul1000(x) == Wide((x \div Limb) * 1000, (x % Limb) * 1000)
WideAdd(w, y) == Wide(w[1], w[2] + y)
WideLeq(v, w) == v[1] < w[1] \/ (v[1] = w[1] /\ v[2] <= w[2])

\* The value of a long expression as the DWORD parameter of set_timer.
ToDWORD(w) == <<w[1] % Limb, w[2]>>
DWORD_MAX == <<Limb - 1, Limb - 1>>

\* r->u.tv.tv_sec * 1000 + (r->u.tv.tv_usec+500) / 1000 over the integers,
\* for a duration that is not negative.
TimerMsExact(tv) == WideAdd(WideMul1000(tv[1]), CDiv(tv[2] + 500, 1000))

\* The same expression does not fit a long (it exceeds LONG_MAX): signed
\* overflow.
TimerMsOverflows(tv) == TimerMsExact(tv)[1] >= Limb \div 2

\* The milliseconds do_pth_wait hands to set_timer for a TIME event.  On
\* signed overflow the C expression is undefined; ub names the outcome of the
\* build: the two's-complement wrap, or another DWORD.
TimerMs(tv, ub) ==
  IF ~TimerMsOverflows(tv) \/ ub = "wrap" THEN ToDWORD(TimerMsExact(tv))
  ELSE IF ub = "zero" THEN <<0, 0>> ELSE DWORD_MAX
OverflowOutcomes == {"wrap", "zero", "max"}

\* set_timer with a SetWaitableTimer that leaves the signaled state of the
\* timer as it is.
set_timer_NoReset(H, hd, ms) ==
  IF hd \notin H.objects \/ hd \notin DOMAIN H.timers
  THEN [H EXCEPT !.ok = FALSE]
  ELSE [H EXCEPT !.ok = TRUE,
                 !.timers[hd] = [armed |-> TRUE, ms |-> ms]]

\* set_timer (hd, ms): SetWaitableTimer puts the timer in the non-signaled
\* state and arms it; it fails on a handle that is no open timer.
set_timer(H, hd, ms) ==
  IF hd \notin H.objects \/ hd \notin DOMAIN H.timers
  THEN [H EXCEPT !.ok = FALSE]
  ELSE [H EXCEPT !.ok = TRUE,
                 !.timers[hd] = [armed |-> TRUE, ms |-> ms],
                 !.signaled = @ \ {hd}]

\* The state of the first walk of do_pth_wait: host state, the two arrays
\* and whether set_timer failed.
WalkRec(H) == [H |-> H, waitbuf |-> << >>, evarray |-> << >>, failed |-> FALSE]

\* The store of a slot made twice: evarray[pos] = r; waitbuf[pos++] = h;
\* and the same again.
AddSlot_Twice(W, r, h) ==
  [W EXCEPT !.waitbuf = Append(Append(@, h), h), !.evarray = Append(Append(@, r), r)]

\* evarray[pos] = r; waitbuf[pos++] = h;
AddSlot(W, r, h) ==
  [W EXCEPT !.waitbuf = Append(@, h), !.evarray = Append(@, r)]

\* The switch of the first walk for node r.
PrepareNode(E, W, r, ub) ==
  CASE E[r].u_type = "SIGS" -> AddSlot(W, r, pth_signo_ev)
    [] E[r].u_type = "FD" ->
         LET fd == E[r].fd
         IN IF fd_is_socket(fd)
            THEN LET sockevent == SockEvent(r)
                     flags == IF "READABLE" \in E[r].flags THEN NetRead ELSE NetWrite
                     H0 == [W.H EXCEPT !.objects = @ \cup {sockevent},
                                       !.signaled = @ \ {sockevent}]
                     H1 == WSAEventSelect(H0, fd, sockevent, flags)
                 IN IF ~H1.ok THEN [W EXCEPT !.H = H1]
                    ELSE AddSlot([W EXCEPT !.H = H1], r, sockevent)
            ELSE IF "READABLE" \in E[r].flags
                 THEN IF pth_get_reader_ev(fd) = INVALID_HANDLE_VALUE THEN W
                      ELSE AddSlot(W, r, pth_get_reader_ev(fd))
                 ELSE IF pth_get_writer_ev(fd) = INVALID_HANDLE_VALUE THEN W
                      ELSE AddSlot(W, r, pth_get_writer_ev(fd))
    [] E[r].u_type = "TIME" ->
         LET H1 == set_timer(W.H, E[r].hd, TimerMs(E[r].tv, ub))
         IN IF ~H1.ok THEN [W EXCEPT !.H = H1, !.failed = TRUE]
            ELSE AddSlot([W EXCEPT !.H = H1], r, E[r].hd)
    [] E[r].u_type = "SELECT" -> AddSlot(W, r, E[r].hd)
    [] E[r].u_type = "HANDLE" -> AddSlot(W, r, E[r].hd)
    [] E[r].u_type = "MUTEX" -> W
    [] OTHER -> W

\* The first walk over the ring (nodes is what is left of it); it stops
\* where set_timer fails.
RECURSIVE PrepareWalk(_, _, _, _)
PrepareWalk(E, W, nodes, ub) ==
  IF nodes = << >> \/ W.failed THEN W
  ELSE PrepareWalk(E, PrepareNode(E, W, Head(nodes), ub), Tail(nodes), ub)

\* Set all events to pending.
ResetStatus(E, e) ==
  LET R == RingOf(E, e)
  IN [n \in DOMAIN E |->
        IF n \in R THEN [E[n] EXCEPT !.status = PTH_STATUS_PENDING] ELSE E[n]]

\* The capacity check of do_pth_wait with >= for >.
OverCapacity_AtLimit(E, e) == event_count(E, e) >= MAXIMUM_WAIT_OBJECTS \div 2

\* The ring is too large for the arrays of do_pth_wait.
OverCapacity(E, e) == event_count(E, e) > MAXIMUM_WAIT_OBJECTS \div 2

\* The events as do_pth_wait leaves them when it returns -1 for a ring over
\* the capacity: with the statuses reset before the check.
WaitRejected_ResetFirst(E, e) == ResetStatus(E, e)

\* The events as do_pth_wait leaves them when it returns -1 for a ring over
\* the capacity: it has touched nothing yet.
WaitRejected(E, e) == E

\* do_pth_wait (e) up to WaitForMultipleObjects: it returns at once for an
\* absent ring (0), for a ring over the capacity (-1) and when set_timer
\* fails (-1); otherwise the caller blocks in the host.  w_n is the local n
\* once it holds the result of WaitForMultipleObjects ("NONE" before).
WaitBegin(e, ub) ==
  /\ w_pc = "idle"
  /\ w_ev' = e
  /\ w_n' = "NONE"
  /\ w_pre' = [ev |-> ev, objects |-> objects, signaled |-> signaled,
                timers |-> timers, net |-> net]
  /\ w_env' = {}
  /\ IF e = NULL
     THEN /\ ret' = 0
          /\ op' = [name |-> "waited", arg |-> <<e>>]
          /\ UNCHANGED <<ev, hostVars, w_pc, waitbuf, evarray>>
     ELSE IF OverCapacity(ev, e)
     THEN /\ ret' = -1
          /\ ev' = WaitRejected(ev, e)
          /\ op' = [name |-> "waited", arg |-> <<e>>]
          /\ UNCHANGED <<hostVars, w_pc, waitbuf, evarray>>
     ELSE LET E1 == ResetStatus(ev, e)
              W == PrepareWalk(E1, WalkRec(HostRec), RingSeq(E1, e), ub)
          IN /\ ev' = E1
             /\ objects' = W.H.objects
             /\ signaled' = W.H.signaled
             /\ timers' = W.H.timers
             /\ net' = W.H.net
             /\ UNCHANGED ready
             /\ waitbuf' = W.waitbuf
             /\ evarray' = W.evarray
             /\ IF W.failed
                THEN /\ ret' = -1
                     /\ w_pc' = "idle"
                     /\ op' = [name |-> "waited", arg |-> <<e>>]
                ELSE /\ ret' = ret
                     /\ w_pc' = "blocked"
                     /\ op' = [name |-> "wait", arg |-> <<e>>]

\* FD_SET (fd, set).
FD_SET(fd, set) ==
  IF (\E i \in 1..Len(set) : set[i] = fd) \/ Len(set) >= FD_SETSIZE THEN set
  ELSE Append(set, fd)

\* The probe with the test of the write set made on the read events.
SelectProbe_ReadForWrite(X, fd) ==
  IF fd \notin Sockets THEN X
  ELSE LET ne == X.H.net[fd].rec
           H1 == [X.H EXCEPT !.net[fd].rec = {}]
           hitr == "r" \in X.sel.has /\ ne \cap NetRead # {}
           hitw == "w" \in X.sel.has /\ ne \cap NetRead # {}
           hite == "e" \in X.sel.has /\ ne \cap NetExcept # {}
           sel1 == [X.sel EXCEPT
                      !.rfds = IF hitr THEN FD_SET(fd, @) ELSE @,
                      !.wfds = IF hitw THEN FD_SET(fd, @) ELSE @,
                      !.efds = IF hite THEN FD_SET(fd, @) ELSE @]
           n1 == X.ntotal + (IF hitr THEN 1 ELSE 0) + (IF hitw THEN 1 ELSE 0)
                          + (IF hite THEN 1 ELSE 0)
       IN [H |-> WSAEventSelect(H1, fd, NullHandle, {}), sel |-> sel1, ntotal |-> n1]

\* One round of the probe loop of an occurred SELECT event: X = [H, sel,
\* ntotal]; WSAEnumNetworkEvents fails on a descriptor that is no socket,
\* otherwise it reports and clears the record of the socket.
SelectProbe(X, fd) ==
  IF fd \notin Sockets THEN X
  ELSE LET ne == X.H.net[fd].rec
           H1 == [X.H EXCEPT !.net[fd].rec = {}]
           hitr == "r" \in X.sel.has /\ ne \cap NetRead # {}
           hitw == "w" \in X.sel.has /\ ne \cap NetWrite # {}
           hite == "e" \in X.sel.has /\ ne \cap NetExcept # {}
           sel1 == [X.sel EXCEPT
                      !.rfds = IF hitr THEN FD_SET(fd, @) ELSE @,
                      !.wfds = IF hitw THEN FD_SET(fd, @) ELSE @,
                      !.efds = IF hite THEN FD_SET(fd, @) ELSE @]
           n1 == X.ntotal + (IF hitr THEN 1 ELSE 0) + (IF hitw THEN 1 ELSE 0)
                          + (IF hite THEN 1 ELSE 0)
       IN [H |-> WSAEventSelect(H1, fd, NullHandle, {}), sel |-> sel1, ntotal |-> n1]

\* The probe loop for i = lo .. hi, in order: the first half of the range,
\* then the second.
RECURSIVE SelectProbeRange(_, _, _, _)
SelectProbeRange(X, fdarray, lo, hi) ==
  IF lo > hi THEN X
  ELSE IF lo = hi THEN SelectProbe(X, fdarray[lo].fd)
  ELSE LET mid == (lo + hi) \div 2
           first == SelectProbeRange(X, fdarray, lo, mid)
       IN IF first.ntotal >= 0
          THEN SelectProbeRange(first, fdarray, mid + 1, hi)
          ELSE first

\* for (i=0; i < nfdarray; i++): the probe of every item of fdarray.
SelectProbeLoop(X, fdarray) == SelectProbeRange(X, fdarray, 1, Len(fdarray))

\* The items of a sequence of descriptors, one for each entry.
FdItems(fds) == [i \in 1..Len(fds) |-> FdItem(fds[i], {})]

\* The probe list as the three fd_sets one after the other, with no test for
\* a descriptor that is in the list already and no limit.
ProbeList_Concat(sel) ==
  FdItems(SelSet(sel, "r")) \o FdItems(SelSet(sel, "w")) \o FdItems(SelSet(sel, "e"))

\* The fdarray the second loop builds for a SELECT event with its three
\* calls of build_fdarray.
ProbeList(sel) ==
  build_fdarray(
    build_fdarray(
      build_fdarray(<< >>, SelSet(sel, "r"), {}),
      SelSet(sel, "w"), {}),
    SelSet(sel, "e"), {})

\* The PTH_EVENT_SELECT case of the second loop: the new host state and the
\* new fd_sets and ready count of the event.
SelectResolve(H, sel) ==
  LET fdarray == ProbeList(sel)
      zero == [sel EXCEPT !.rfds = << >>, !.wfds = << >>, !.efds = << >>]
      X == SelectProbeLoop([H |-> H, sel |-> zero, ntotal |-> 0], fdarray)
  IN [H |-> X.H, sel |-> [X.sel EXCEPT !.rc = X.ntotal]]

\* reset_event (h) with a ResetEvent that leaves the object as it is.
reset_event_Nothing(H, h) == H

\* reset_event (h).
reset_event(H, h) == [H EXCEPT !.signaled = @ \ {h}]

\* The body of the second loop of do_pth_wait for slot idx: R = [E, H,
\* waitbuf, count].
ResolveSlot(R, evs, idx) ==
  LET r == evs[idx]
      h == R.waitbuf[idx]
      hit == h \in R.H.signaled /\ h \in R.H.objects
      E1 == IF hit THEN [R.E EXCEPT ![r].status = PTH_STATUS_OCCURRED] ELSE R.E
      S == SelectResolve(R.H, E1[r].sel)
      E2 == IF ~hit THEN E1
            ELSE IF E1[r].u_type = "SIGS" THEN [E1 EXCEPT ![r].signo = pth_signo]
            ELSE IF E1[r].u_type = "SELECT" THEN [E1 EXCEPT ![r].sel = S.sel]
            ELSE E1
      H2 == IF hit /\ E1[r].u_type = "SELECT" THEN S.H ELSE R.H
      H3 == IF hit /\ E1[r].u_type \notin {"TIME", "FD"} THEN reset_event(H2, h) ELSE H2
      sock == E2[r].u_type = "FD" /\ fd_is_socket(E2[r].fd)
      H4 == IF sock
            THEN LET Ha == WSAEventSelect(H3, E2[r].fd, NullHandle, {})
                 IN [Ha EXCEPT !.objects = @ \ {h}, !.signaled = @ \ {h}]
            ELSE H3
  IN [E |-> E2, H |-> H4,
      waitbuf |-> IF sock THEN [R.waitbuf EXCEPT ![idx] = NullHandle] ELSE R.waitbuf,
      count |-> R.count + (IF hit THEN 1 ELSE 0)]

\* for (idx = 0; idx < pos; idx++): pos is the number of filled slots.
RECURSIVE ResolveLoop(_, _, _)
ResolveLoop(R, evs, idx) ==
  IF idx > Len(R.waitbuf) THEN R
  ELSE ResolveLoop(ResolveSlot(R, evs, idx), evs, idx + 1)

\* The return statements of do_pth_wait with a flag for a counter.
WaitResult_Flag(count, n) ==
  IF count # 0 THEN 1
  ELSE IF n = "WAIT_TIMEOUT" THEN 0
  ELSE -1

\* The value do_pth_wait returns after the second loop; n is what
\* WaitForMultipleObjects returned.
WaitResult(count, n) ==
  IF count # 0 THEN count
  ELSE IF n = "WAIT_TIMEOUT" THEN 0
  ELSE -1

\* WaitForMultipleObjects (pos, waitbuf, FALSE, INFINITE) can return: with
\* success when one of the objects is signaled, with WAIT_FAILED when it is
\* given no handle, a closed handle or (as its contract allows) the same
\* handle twice.  With INFINITE it never returns WAIT_TIMEOUT.
WFMOResults ==
  (IF \E i \in 1..Len(waitbuf) : waitbuf[i] \in signaled
   THEN {"WAIT_OBJECT"} ELSE {})
  \cup (IF \/ Len(waitbuf) = 0
           \/ \E i \in 1..Len(waitbuf) : waitbuf[i] \notin objects
           \/ \E i, j \in 1..Len(waitbuf) : i # j /\ waitbuf[i] = waitbuf[j]
        THEN {"WAIT_FAILED"} ELSE {})

\* do_pth_wait from the return of WaitForMultipleObjects to its own return.
WaitResume ==
  /\ w_pc = "blocked"
  /\ \E n \in WFMOResults :
       LET R == ResolveLoop([E |-> ev, H |-> HostRec, waitbuf |-> waitbuf, count |-> 0],
                            evarray, 1)
       IN /\ ev' = R.E
          /\ objects' = R.H.objects
          /\ signaled' = R.H.signaled
          /\ timers' = R.H.timers
          /\ net' = R.H.net
          /\ waitbuf' = R.waitbuf
          /\ ret' = WaitResult(R.count, n)
          /\ w_n' = n
  /\ w_pc' = "idle"
  /\ op' = [name |-> "waited", arg |-> <<w_ev>>]
  /\ UNCHANGED <<ready, w_ev, evarray, w_pre, w_env>>

(* ------------------------------------------------------------------ *)
(* The host acting on its objects while the library does not run.       *)
(* ------------------------------------------------------------------ *)
\* What a step of the host leaves of the frame of a wait: a blocked wait
\* sees the objects H become signaled; the frame of a returned wait is gone.
HostFrame(H) ==
  IF w_pc = "blocked"
  THEN /\ w_env' = w_env \cup H
       /\ UNCHANGED <<w_pc, w_ev, waitbuf, evarray, w_n, w_pre>>
  ELSE NoWaitFrame

\* Another thread, or the I/O backend, sets an event object.
HostSetEvent(h) ==
  /\ h \in objects
  /\ h \notin signaled
  /\ signaled' = signaled \cup {h}
  /\ HostFrame({h})
  /\ op' = [name |-> "host", arg |-> << >>]
  /\ UNCHANGED <<ev, objects, timers, net, ready, ret>>

\* An armed waitable timer reaches its due time.
HostTimerExpire(h) ==
  /\ h \in DOMAIN timers
  /\ timers[h].armed
  /\ timers' = [timers EXCEPT ![h].armed = FALSE]
  /\ signaled' = signaled \cup {h}
  /\ HostFrame({h})
  /\ op' = [name |-> "host", arg |-> << >>]
  /\ UNCHANGED <<ev, objects, net, ready, ret>>

\* Network condition c starts to hold on socket fd: the host records it if
\* it is selected and signals the event object registered for the socket.
HostNetEvent(fd, c) ==
  /\ c \notin ready[fd]
  /\ ready' = [ready EXCEPT ![fd] = @ \cup {c}]
  /\ LET sel == c \in net[fd].mask
         h == net[fd].hd
     IN /\ net' = IF sel THEN [net EXCEPT ![fd].rec = @ \cup {c}] ELSE net
        /\ signaled' = IF sel /\ h \in objects THEN signaled \cup {h} ELSE signaled
        /\ HostFrame(IF sel /\ h \in objects THEN {h} ELSE {})
  /\ op' = [name |-> "host", arg |-> << >>]
  /\ UNCHANGED <<ev, objects, timers, ret>>

(* ------------------------------------------------------------------ *)
(* Threads and the critical section pth_shd.                            *)
(* ------------------------------------------------------------------ *)
\* The thread that called pth_init and the threads it spawns.
MainThread == 1
Threads == 1..(1 + NumSpawn)
NoOwner == 0

\* A thread that does not exist yet, and a thread running application code.
\* ctx is the struct thread_info_s made for the thread (state: "none",
\* "live" or "freed"; th: the stored handle; joinable), hd_open tells
\* whether its native handle is open, attr is the pth_attr_t it passes to
\* pth_spawn.
NoCtx == [state |-> "none", th |-> NULL, joinable |-> FALSE]
NoThread == [pc |-> "unborn", fn |-> "none", reg |-> 0, ok |-> 0, arg |-> 0,
             ctx |-> NoCtx, hd_open |-> FALSE, attr |-> "none"]
UserThread == [NoThread EXCEPT !.pc = "user"]

\* A mutex nobody owns.
NoMutex == [owner |-> NoOwner, count |-> 0, abandoned |-> FALSE]

\* No compound call is running.
NoPre == [ring |-> {}, dom |-> {}, objects |-> {}, timers |-> {},
          gate |-> [owner |-> NoOwner, count |-> 0]]
NoIo == [pc |-> "idle", fn |-> "none", arg |-> 0, ev |-> NULL, ev_time |-> NULL,
         extra |-> NULL, tmo |-> FALSE, made |-> 0, waited |-> FALSE,
         refused |-> FALSE, rv |-> 0, pre |-> NoPre,
         fired |-> FALSE, done |-> FALSE, errno |-> "none", nonblock |-> FALSE,
         sets |-> << >>]

\* Nothing reported yet.
NoHist == [holders |-> {}, pending |-> {}, both |-> {}, cancelled |-> {}]

\* EnterCriticalSection (&pth_shd) by t returns when the section is free
\* or t owns it already (a critical section is recursive).
CanEnter(G, t) == (G.owner = NoOwner /\ G.count = 0) \/ G.owner = t
EnterCriticalSection(G, t) == [owner |-> t, count |-> G.count + 1]

\* LeaveCriticalSection by the owner.
LeaveOwned(G) ==
  IF G.count = 1 THEN [owner |-> NoOwner, count |-> 0]
  ELSE [G EXCEPT !.count = @ - 1]

\* LeaveCriticalSection by a thread that does not own the section is
\* undefined: the host may ignore the call, or count it without looking at
\* the owner, which takes the section from the thread that owns it and
\* leaves a free section with a count nobody can enter any more.
LeaveOutcomes == {"ignored", "counted"}
LeaveForeign(G, outcome) ==
  IF outcome = "ignored" THEN G
  ELSE IF G.owner # NoOwner THEN LeaveOwned(G)
  ELSE [owner |-> NoOwner, count |-> G.count - 1]

\* enter_pth: LeaveCriticalSection (&pth_shd).
enter_pth(G, t, outcome) ==
  IF G.owner = t THEN LeaveOwned(G) ELSE LeaveForeign(G, outcome)

\* leave_pth: EnterCriticalSection (&pth_shd), once it can return.
leave_pth(G, t) == EnterCriticalSection(G, t)

\* The public functions by the shape of their body between enter_pth and
\* leave_pth: bookkeeping only; one blocking host call only; bookkeeping,
\* the blocking call of do_pth_wait and bookkeeping again.
BookFns == {"pth_event", "pth_event_free", "pth_spawn", "pth_mutex_release"}
BlockFns == {"pth_mutex_acquire", "pth_read", "pth_write", "pth_accept",
             "pth_connect"}
WaitFns == {"pth_wait", "pth_write_ev"}
CancelFns == {"pth_cancel", "pth_abort"}

\* ReleaseMutex (*mutex) by t: fails unless t owns the mutex.
ReleaseMutex(M, t) ==
  IF M.owner # t THEN M
  ELSE IF M.count = 1 THEN [M EXCEPT !.owner = NoOwner, !.count = 0]
  ELSE [M EXCEPT !.count = @ - 1]

\* WaitForSingleObject (*mutex, INFINITE) by t returns when the mutex is
\* free or t owns it; it reports WAIT_ABANDONED for a mutex whose owner
\* ended without releasing it, and t owns the mutex in both cases.
MutexWaitable(M, t) == M.owner = NoOwner \/ M.owner = t
MutexCode(M) == IF M.abandoned THEN "WAIT_ABANDONED" ELSE "WAIT_OBJECT_0"
MutexTaken(M, t) == [owner |-> t, count |-> M.count + 1, abandoned |-> FALSE]

\* The switch of pth_mutex_acquire on the code of WaitForSingleObject,
\* reporting success for every code.
AcquireResult_AnyCode(code) == 1

\* The switch of pth_mutex_acquire on the code of WaitForSingleObject.
AcquireResult(code) == IF code = "WAIT_OBJECT_0" THEN 1 ELSE 0

\* What a thread that ends leaves of the mutex it owns.
MutexAbandon(M, t) ==
  IF M.owner = t THEN [owner |-> NoOwner, count |-> 0, abandoned |-> TRUE] ELSE M

\* The threads that are inside a call of pth_mutex_acquire.
InAcquire == {t \in Threads : th[t].fn = "pth_mutex_acquire" /\ th[t].pc # "user"}

\* History of the calls.  cancelled: the threads whose handle was passed
\* to pth_cancel or pth_abort.  holders: the threads that
\* were returned TRUE since the last successful pth_mutex_release.
\* pending: the pairs <<t, u>> where t was returned TRUE while the call of u
\* was in progress, no release since.  both: the pairs of pending whose
\* second call was returned TRUE as well.
HistAcquire(H, t, okv, others) ==
  [H EXCEPT
     !.holders = IF okv = 1 THEN @ \cup {t} ELSE @,
     !.pending = {p \in @ : p[2] # t}
                   \cup (IF okv = 1 THEN {<<t, u>> : u \in others} ELSE {}),
     !.both = @ \cup (IF okv = 1 THEN {p \in H.pending : p[2] = t} ELSE {})]

\* History of a successful pth_mutex_release.
HistRelease(H) == [H EXCEPT !.holders = {}, !.pending = {}]

\* Thread t, running application code, calls the public function f, which
\* starts with enter_pth.
ThreadCall(t, f) ==
  /\ th[t].pc = "user"
  /\ \E outcome \in LeaveOutcomes : gate' = enter_pth(gate, t, outcome)
  /\ th' = [th EXCEPT ![t].fn = f, ![t].ok = 0,
                      ![t].pc = IF f \in BlockFns THEN "blocked" ELSE "book"]
  /\ UNCHANGED <<thread_counter, mutex, hist>>

\* The bookkeeping of t's call up to its blocking call or its leave_pth.
\* do_pth_spawn creates the next thread (CreateThread and ResumeThread).
ThreadBook(t) ==
  /\ th[t].pc = "book"
  /\ LET f == th[t].fn
         unborn == {u \in Threads : th[u].pc = "unborn"}
         u == CHOOSE v \in unborn : \A w \in unborn : v <= w
         rel == ReleaseMutex(mutex, t)
     IN /\ f = "pth_spawn" => unborn # {}
        /\ th' = [x \in Threads |->
                    IF x = t
                    THEN [th[t] EXCEPT !.pc = IF f \in WaitFns THEN "blocked" ELSE "reacq",
                                       !.ok = IF f = "pth_mutex_release"
                                              THEN (IF mutex.owner = t THEN 1 ELSE 0)
                                              ELSE @]
                    ELSE IF f = "pth_spawn" /\ x = u
                    THEN [th[x] EXCEPT !.pc = "created"]
                    ELSE th[x]]
        /\ mutex' = IF f = "pth_mutex_release" THEN rel ELSE mutex
        /\ hist' = IF f = "pth_mutex_release" /\ mutex.owner = t
                   THEN HistRelease(hist) ELSE hist
  /\ UNCHANGED <<gate, thread_counter>>

\* The blocking host call of t returns.
ThreadUnblock(t) ==
  /\ th[t].pc = "blocked"
  /\ th[t].fn \in BlockFns \cup WaitFns
  /\ LET f == th[t].fn
     IN IF f = "pth_mutex_acquire"
        THEN /\ MutexWaitable(mutex, t)
             /\ mutex' = MutexTaken(mutex, t)
             /\ th' = [th EXCEPT ![t].pc = "reacq",
                                 ![t].ok = AcquireResult(MutexCode(mutex))]
        ELSE /\ th' = [th EXCEPT ![t].pc = IF f \in WaitFns THEN "after" ELSE "reacq"]
             /\ UNCHANGED mutex
  /\ UNCHANGED <<gate, thread_counter, hist>>

\* The bookkeeping after the blocking call of do_pth_wait: the second loop
\* of do_pth_wait; in pth_write_ev then pth_event_isolate and the call of
\* the public pth_event_status, which starts with an enter_pth of its own.
ThreadAfter(t) ==
  /\ th[t].pc = "after"
  /\ IF th[t].fn = "pth_write_ev"
     THEN /\ \E outcome \in LeaveOutcomes : gate' = enter_pth(gate, t, outcome)
          /\ th' = [th EXCEPT ![t].pc = "status"]
     ELSE /\ th' = [th EXCEPT ![t].pc = "reacq"]
          /\ UNCHANGED gate
  /\ UNCHANGED <<thread_counter, mutex, hist>>

\* pth_event_status inside pth_write_ev reads the status and passes its
\* leave_pth; pth_write_ev then frees its event and writes.
ThreadStatus(t) ==
  /\ th[t].pc = "status"
  /\ CanEnter(gate, t)
  /\ gate' = leave_pth(gate, t)
  /\ th' = [th EXCEPT ![t].pc = "reacq"]
  /\ UNCHANGED <<thread_counter, mutex, hist>>

\* pth_cancel (NULL) and pth_abort (NULL): return -1.
ThreadCancelNull(t) ==
  /\ th[t].pc = "user"
  /\ th' = [th EXCEPT ![t].ok = -1]
  /\ UNCHANGED <<gate, thread_counter, mutex, hist>>

\* Thread t calls pth_cancel or pth_abort with the handle of thread u, which
\* pth_spawn has created: enter_pth.
ThreadCancel(t, f, u) ==
  /\ th[t].pc = "user"
  /\ f \in CancelFns
  /\ u \notin {MainThread, t}
  /\ th[u].pc # "unborn"
  /\ u \notin hist.cancelled
  /\ \E outcome \in LeaveOutcomes : gate' = enter_pth(gate, t, outcome)
  /\ th' = [th EXCEPT ![t].fn = f, ![t].ok = 0, ![t].arg = u, ![t].pc = "kill"]
  /\ hist' = [hist EXCEPT !.cancelled = @ \cup {u}]
  /\ UNCHANGED <<thread_counter, mutex>>

\* WaitForSingleObject (hd, 1000) of pth_cancel, which returns within the
\* second whatever the target does, and TerminateThread (hd, 0): a target
\* that runs is ended where it stands, keeping the critical section if it
\* owns it; on a target that has ended TerminateThread succeeds or fails.
ThreadKill(t) ==
  /\ th[t].pc = "kill"
  /\ LET u == th[t].arg
     IN IF th[u].pc # "dead"
        THEN /\ th' = [th EXCEPT ![t].ok = 1, ![t].pc = "reacq",
                                 ![u].pc = "dead", ![u].fn = "none", ![u].reg = 0]
             /\ mutex' = MutexAbandon(mutex, u)
        ELSE /\ \E okv \in {0, 1} :
                  th' = [th EXCEPT ![t].ok = okv, ![t].pc = "reacq"]
             /\ UNCHANGED mutex
  /\ UNCHANGED <<gate, thread_counter, hist>>

\* The store of the thread_counter-- of pth_cancel and pth_abort, and the
\* return.
ThreadCancelDec(t) ==
  /\ th[t].pc = "cdec"
  /\ thread_counter' = th[t].reg - 1
  /\ th' = [th EXCEPT ![t].pc = "user", ![t].fn = "none", ![t].reg = 0]
  /\ UNCHANGED <<gate, mutex, hist>>

\* The leave_pth that ends t's call, and the return to the application; in
\* pth_cancel and pth_abort with ok set, the load of thread_counter--.
ThreadReturn(t) ==
  /\ th[t].pc = "reacq"
  /\ CanEnter(gate, t)
  /\ gate' = leave_pth(gate, t)
  /\ th' = IF th[t].fn \in CancelFns /\ th[t].ok = 1
           THEN [th EXCEPT ![t].pc = "cdec", ![t].reg = thread_counter]
           ELSE [th EXCEPT ![t].pc = "user", ![t].fn = "none"]
  /\ hist' = IF th[t].fn = "pth_mutex_acquire"
             THEN HistAcquire(hist, t, th[t].ok, InAcquire \ {t}) ELSE hist
  /\ UNCHANGED <<thread_counter, mutex>>

\* launch_thread up to the load of thread_counter++: leave_pth.
ThreadLaunch(t) ==
  /\ th[t].pc = "created"
  /\ CanEnter(gate, t)
  /\ gate' = leave_pth(gate, t)
  /\ th' = [th EXCEPT ![t].pc = "inc", ![t].reg = thread_counter]
  /\ UNCHANGED <<thread_counter, mutex, hist>>

\* The store of thread_counter++ and the call of the thread function.
ThreadStart(t) ==
  /\ th[t].pc = "inc"
  /\ thread_counter' = th[t].reg + 1
  /\ th' = [th EXCEPT ![t].pc = "user", ![t].fn = "none", ![t].reg = 0]
  /\ UNCHANGED <<gate, mutex, hist>>

\* The thread function of the spawned thread t returns: CloseHandle and
\* the load of thread_counter--.
ThreadFinish(t) ==
  /\ t # MainThread
  /\ th[t].pc = "user"
  /\ th' = [th EXCEPT ![t].pc = "dec", ![t].reg = thread_counter]
  /\ UNCHANGED <<gate, thread_counter, mutex, hist>>

\* The store of thread_counter--, enter_pth and ExitThread.
ThreadExit(t) ==
  /\ th[t].pc = "dec"
  /\ thread_counter' = th[t].reg - 1
  /\ \E outcome \in LeaveOutcomes : gate' = enter_pth(gate, t, outcome)
  /\ th' = [th EXCEPT ![t].pc = "dead", ![t].fn = "none", ![t].reg = 0]
  /\ mutex' = MutexAbandon(mutex, t)
  /\ UNCHANGED hist

(* ------------------------------------------------------------------ *)
(* The state after pth_init and the ring specification.                 *)
(* ------------------------------------------------------------------ *)
Init ==
  /\ ev = << >>
  /\ objects = {pth_signo_ev} \cup RawHandles \cup BackendHandles
  /\ signaled = {}
  /\ timers = << >>
  /\ net = [fd \in Sockets |-> NoReg]
  /\ ready = [fd \in Sockets |-> {}]
  /\ w_pc = "idle"
  /\ w_ev = NULL
  /\ waitbuf = << >>
  /\ evarray = << >>
  /\ w_n = "NONE"
  /\ w_pre = NoHistory
  /\ w_env = {}
  /\ op = [name |-> "init", arg |-> << >>]
  /\ ret = 1
  /\ io = NoIo
  /\ th = [t \in Threads |-> IF t = MainThread THEN UserThread ELSE NoThread]
  /\ gate = [owner |-> MainThread, count |-> 1]
  /\ thread_counter = 1
  /\ mutex = NoMutex
  /\ hist = NoHist

\* The arguments a caller gives pth_event_concat after head: up to
\* MaxConcatArgs events.
MaxConcatArgs == 2
ConcatArgs(S) == UNION {[1..k -> S] : k \in 0..MaxConcatArgs}

\* The contract of pth_event_concat: its arguments are distinct rings.
DisjointRings(E, head, args) ==
  LET all == <<head>> \o args
  IN \A i \in 1..Len(all) : \A j \in 1..Len(all) :
       i # j => RingOf(E, all[i]) \cap RingOf(E, all[j]) = {}

RingEvent ==
  /\ Cardinality(DOMAIN ev) < NumEvents
  /\ pth_event([kind |-> "TIME", mods |-> {}], <<0, 0>>, "none")
  /\ Quiet

RingEventHandle ==
  /\ Cardinality(DOMAIN ev) < NumEvents
  /\ pth_event([kind |-> "HANDLE", mods |-> {}], RawHandle(1), "none")
  /\ Quiet

RingConcat ==
  /\ \E head \in DOMAIN ev \cup {NULL} :
       \E args \in ConcatArgs(DOMAIN ev) :
         /\ head # NULL => DisjointRings(ev, head, args)
         /\ pth_event_concat(head, args)
  /\ Quiet

RingIsolate ==
  /\ \E e \in DOMAIN ev \cup {NULL} : pth_event_isolate(e)
  /\ Quiet

RingFree ==
  /\ \E e \in DOMAIN ev \cup {NULL} : \E mode \in {"THIS", "ALL"} :
       pth_event_free(e, mode)
  /\ Quiet

RingNext == RingEvent \/ RingEventHandle \/ RingConcat \/ RingIsolate \/ RingFree

SpecRing == Init /\ [][RingNext]_vars

(* ------------------------------------------------------------------ *)
(* The wait specification: a caller that grows one ring of HANDLE, TIME *)
(* and MUTEX events, waits on it from any of its events as it grows,    *)
(* and frees it as a whole; and the host.                               *)
(* ------------------------------------------------------------------ *)
\* The durations the caller of the wait specification asks for.
WaitDurations == {<<1, 0>>}

\* The calls of pth_event of the wait specification: <<spec, arg>>.
WaitEventInputs ==
  {<<[kind |-> "HANDLE", mods |-> {}], h>> : h \in RawHandles}
  \cup {<<[kind |-> "TIME", mods |-> {}], tv>> : tv \in WaitDurations}
  \cup {<<[kind |-> "MUTEX", mods |-> {}], 0>>}

WaitEvent ==
  /\ Cardinality(DOMAIN ev) < NumWaitEvents
  /\ DOMAIN ev # {} => RingOf(ev, 1) = DOMAIN ev
  /\ \E in \in WaitEventInputs : pth_event(in[1], in[2], "none")
  /\ Quiet

WaitConcat ==
  /\ 1 \in DOMAIN ev
  /\ \E a \in DOMAIN ev \ RingOf(ev, 1) : pth_event_concat(1, <<a>>)
  /\ Quiet

WaitFree ==
  /\ 1 \in DOMAIN ev
  /\ RingOf(ev, 1) = DOMAIN ev
  /\ pth_event_free(1, "ALL")
  /\ Quiet

WaitCall ==
  /\ \E e \in DOMAIN ev \cup {NULL} : WaitBegin(e, "wrap")
  /\ Quiet

WaitReturn ==
  /\ WaitResume
  /\ Quiet

WaitSetEvent ==
  /\ \E h \in RawHandles : HostSetEvent(h)
  /\ Quiet

WaitTimerExpire ==
  /\ \E h \in DOMAIN timers : HostTimerExpire(h)
  /\ Quiet

WaitNext ==
  \/ WaitEvent \/ WaitConcat \/ WaitFree \/ WaitCall \/ WaitReturn
  \/ WaitSetEvent \/ WaitTimerExpire

SpecWait == Init /\ [][WaitNext]_vars

(* ------------------------------------------------------------------ *)
(* C1: the ring invariant.                                              *)
(* ------------------------------------------------------------------ *)
RECURSIVE SumCard(_)
SumCard(SS) ==
  IF SS = {} THEN 0
  ELSE LET S == CHOOSE X \in SS : TRUE IN Cardinality(S) + SumCard(SS \ {S})

Rings(E) == {RingOf(E, n) : n \in DOMAIN E}

\* Node n of E is linked both ways and following next from n returns to n.
NodeLinked(E, n) ==
  /\ E[n].next \in DOMAIN E
  /\ E[n].prev \in DOMAIN E
  /\ E[E[n].next].prev = n
  /\ E[E[n].prev].next = n
  /\ LET s == RingSeq(E, n) IN E[s[Len(s)]].next = n

ValidRings(E) ==
  /\ \A n \in DOMAIN E : NodeLinked(E, n)
  /\ \A n \in DOMAIN E : \A m \in RingOf(E, n) : RingOf(E, m) = RingOf(E, n)
  /\ SumCard(Rings(E)) = Cardinality(DOMAIN E)

\* C1: after any sequence of pth_event_concat calls on disjoint rings,
\* pth_event_isolate calls and frees, every live event n has
\* n.next.prev = n and n.prev.next = n, following next from n returns to n,
\* every live event is in exactly one ring, and the ring sizes add up to the
\* number of live events.
C1_RingInvariant == ValidRings(ev)

\* A ring of three nodes, reached by a concat of several arguments.
C1_Witness ==
  /\ op.name = "concat" /\ op.arg[2] = 2
  /\ \E n \in DOMAIN ev : Cardinality(RingOf(ev, n)) = 3


(* ------------------------------------------------------------------ *)
(* C2: isolation.                                                       *)
(* ------------------------------------------------------------------ *)
\* What a step that is a call pth_event_isolate (e) does to the ring R of e.
IsolatePost(e) ==
  IF e = NULL THEN ret' = NULL /\ ev' = ev
  ELSE LET R == RingOf(ev, e)
       IN IF Cardinality(R) = 1
          THEN ret' = NULL /\ ev' = ev
          ELSE /\ ev'[e].next = e /\ ev'[e].prev = e
               /\ ret' \in R \ {e}
               /\ RingOf(ev', ret') = R \ {e}
               /\ \A m \in R \ {e} :
                    /\ NodeLinked(ev', m)
                    /\ ev'[m].next = (IF ev[m].next = e THEN ev[e].next ELSE ev[m].next)
                    /\ ev'[m].prev = (IF ev[m].prev = e THEN ev[e].prev ELSE ev[m].prev)
               /\ \A m \in DOMAIN ev \ R : ev'[m] = ev[m]

\* C2: pth_event_isolate (e) on a ring of N > 1 nodes leaves e a singleton,
\* returns a node of the remainder, and the remainder is a valid ring of the
\* other N-1 nodes in their previous cyclic order; on a singleton ring or an
\* absent event it returns NULL and changes no link.
C2_Isolate == [][op'.name = "isolate" => IsolatePost(op'.arg[1])]_vars

\* pth_event_isolate has just taken a node out of a ring of three or more.
C2_Witness ==
  /\ op.name = "isolate"
  /\ ret # NULL
  /\ Cardinality(RingOf(ev, ret)) >= 2
  /\ ev[op.arg[1]].next = op.arg[1]

(* ------------------------------------------------------------------ *)
(* C3, C4, C7: what a wait returns and marks.                           *)
(* ------------------------------------------------------------------ *)
\* The events of the ring the last wait was called on that are OCCURRED.
Occurred == {n \in RingOf(ev, w_ev) : ev[n].status = PTH_STATUS_OCCURRED}

\* The last wait went through WaitForMultipleObjects and has returned.
Waited == op.name = "waited" /\ w_n # "NONE"

\* The native object behind event n: what its slot of waitbuf holds, and for
\* the kinds that get no slot the object bound to the event.
NativeObject(E, n) ==
  CASE E[n].u_type = "SIGS" -> pth_signo_ev
    [] E[n].u_type = "FD" ->
         IF fd_is_socket(E[n].fd) THEN NullHandle
         ELSE IF "READABLE" \in E[n].flags THEN pth_get_reader_ev(E[n].fd)
         ELSE pth_get_writer_ev(E[n].fd)
    [] OTHER -> E[n].hd

\* The events of the ring whose native object was signaled when the last
\* wait was called.
PreSignaled ==
  IF w_ev = NULL THEN {}
  ELSE {n \in RingOf(w_pre.ev, w_ev) : NativeObject(w_pre.ev, n) \in w_pre.signaled}

\* C3: when exactly the events of a ring within capacity whose native object
\* is signaled before the wait are m >= 1 and nothing becomes signaled during
\* the wait, the wait returns m, exactly those events are OCCURRED and the
\* others are PENDING, whatever their statuses were.
C3_PreSignaled ==
  (Waited /\ PreSignaled # {} /\ w_env = {}) =>
     /\ ret = Cardinality(PreSignaled)
     /\ Occurred = PreSignaled
     /\ \A n \in RingOf(ev, w_ev) \ PreSignaled : ev[n].status = PTH_STATUS_PENDING

\* The ring the last wait was called on is one TIME event.
TimeOnly ==
  /\ w_ev # NULL
  /\ RingOf(ev, w_ev) = {w_ev}
  /\ ev[w_ev].u_type = "TIME"

\* C4 as stated: a wait on a ring of one TIME event returns 0 once the timer
\* has expired.
C4_ReturnsZero == (Waited /\ TimeOnly) => ret = 0

\* C4: a wait on a ring of one TIME event returns only after the timer it
\* armed has expired, and then it returns 1 with the event OCCURRED.
C4_TimeOnly ==
  (Waited /\ TimeOnly) =>
     /\ ret = 1
     /\ ev[w_ev].status = PTH_STATUS_OCCURRED
     /\ ev[w_ev].hd \in w_env

\* A wait on a lone TIME event has returned, for the second time: the timer
\* had expired before this wait armed it again.
C4_Witness ==
  /\ Waited /\ TimeOnly
  /\ PreSignaled = {w_ev}
  /\ ret = 1

\* The events the last wait marked OCCURRED: a wait that returns before its
\* first walk marks none.
Marked == IF w_n = "NONE" THEN {} ELSE Occurred

NumTimerEvents == 1

\* The durations <<tv_sec, tv_usec>> it asks for: below and at half a
\* millisecond, about a second, and around LONG_MAX and ULONG_MAX
\* milliseconds.
TimerDurations ==
  {<<0, 0>>, <<0, 1>>, <<0, 400>>, <<0, 499>>, <<0, 500>>, <<0, 999>>,
   <<1, 499>>, <<1, 999999>>, <<2147483, 647000>>, <<2147484, 0>>, <<4294967, 295000>>, <<4294968, 0>>}

TimerEvent ==
  /\ Cardinality(DOMAIN ev) < NumTimerEvents
  /\ \E tv \in TimerDurations : pth_event([kind |-> "TIME", mods |-> {}], tv, "none")
  /\ Quiet

TimerCall ==
  /\ \E e \in DOMAIN ev : \E ub \in OverflowOutcomes : WaitBegin(e, ub)
  /\ Quiet

TimerReturn ==
  /\ WaitResume
  /\ Quiet

TimerExpire ==
  /\ \E h \in DOMAIN timers : HostTimerExpire(h)
  /\ Quiet

TimerFree ==
  /\ \E e \in DOMAIN ev : pth_event_free(e, "THIS")
  /\ Quiet

TimerNext == TimerEvent \/ TimerCall \/ TimerReturn \/ TimerExpire \/ TimerFree

SpecTimer == Init /\ [][TimerNext]_vars

(* ------------------------------------------------------------------ *)
(* C5, C6: the duration a wait arms a timer with.                       *)
(* ------------------------------------------------------------------ *)
\* The TIME events whose timer the running wait has armed.
ArmedEvents ==
  IF w_pc # "blocked" THEN {}
  ELSE {n \in RingOf(ev, w_ev) : ev[n].u_type = "TIME"}

\* The least number of milliseconds that is not shorter than tv.
CeilMs(tv) == WideAdd(WideMul1000(tv[1]), (tv[2] + 999) \div 1000)

\* C5: the timer a wait arms for a TIME event of duration (sec, usec) is not
\* shorter than the duration: 1000 * ms >= 1000000 * sec + usec, which is
\* ms >= 1000 * sec + ceiling(usec / 1000).
C5_NeverEarly ==
  \A n \in ArmedEvents : WideLeq(CeilMs(ev[n].tv), timers[ev[n].hd].ms)

\* C6: the timer a wait arms for a TIME event of duration (sec, usec) with
\* 0 <= usec < 1000000 is set to sec * 1000 + floor((usec + 500) / 1000)
\* milliseconds.
C6_Rounding ==
  \A n \in ArmedEvents :
    (0 <= ev[n].tv[2] /\ ev[n].tv[2] < 1000000) =>
      timers[ev[n].hd].ms = TimerMsExact(ev[n].tv)

(* ------------------------------------------------------------------ *)
(* The capacity specification: a caller that grows one ring of TIME     *)
(* events past the capacity of the wait, waiting on it as it grows.     *)
(* ------------------------------------------------------------------ *)
\* The events the caller builds beyond the capacity.
CapExtra == 1
CapEvents == MAXIMUM_WAIT_OBJECTS \div 2 + CapExtra

\* The first event and the one that fills the capacity get a short
\* duration, the others a long one; only the short timers expire within
\* the time the specification covers.
CapShort == {1, MAXIMUM_WAIT_OBJECTS \div 2}
CapDuration(id) == IF id \in CapShort THEN <<0, 500>> ELSE <<3600, 0>>

CapEvent ==
  /\ Cardinality(DOMAIN ev) < CapEvents
  /\ DOMAIN ev # {} => RingOf(ev, 1) = DOMAIN ev
  /\ pth_event([kind |-> "TIME", mods |-> {}], CapDuration(NewId(ev)), "none")
  /\ Quiet

CapConcat ==
  /\ 1 \in DOMAIN ev
  /\ \E a \in DOMAIN ev \ RingOf(ev, 1) : pth_event_concat(1, <<a>>)
  /\ Quiet

CapCall ==
  /\ 1 \in DOMAIN ev /\ WaitBegin(1, "wrap")
  /\ Quiet

CapReturn ==
  /\ WaitResume
  /\ Quiet

CapTimerExpire ==
  /\ \E n \in CapShort : HostTimerExpire(TmrHandle(n))
  /\ Quiet

CapNext == CapEvent \/ CapConcat \/ CapCall \/ CapReturn \/ CapTimerExpire

SpecCap == Init /\ [][CapNext]_vars

(* ------------------------------------------------------------------ *)
(* C8, C9: the capacity of a wait.                                      *)
(* ------------------------------------------------------------------ *)
\* C8: a wait on a ring of up to MAXIMUM_WAIT_OBJECTS/2 events, and so of
\* exactly that many, passes the check and reaches WaitForMultipleObjects; a
\* wait on a ring of more, and so of one more, returns -1 without any
\* blocking call.
C8_Capacity ==
  (op.name \in {"wait", "waited"} /\ w_ev # NULL) =>
    IF event_count(ev, w_ev) <= MAXIMUM_WAIT_OBJECTS \div 2
    THEN w_pc = "blocked" \/ w_n # "NONE"
    ELSE w_pc = "idle" /\ w_n = "NONE" /\ ret = -1

\* A ring of one event more than the capacity has been rejected; the status
\* of its last event but one shows that a wait on the ring of exactly the
\* capacity went through and marked that event.
C8_Witness ==
  /\ op.name = "waited" /\ w_ev # NULL
  /\ event_count(ev, w_ev) = MAXIMUM_WAIT_OBJECTS \div 2 + 1
  /\ ret = -1
  /\ ev[MAXIMUM_WAIT_OBJECTS \div 2].status = PTH_STATUS_OCCURRED

\* C9: a wait that fails because the ring is over the capacity changes no
\* event status, no ring link, no timer, no notification registration and
\* no signaled state: after it they are what they were when it was called.
C9_NoPartialEffects ==
  (op.name = "waited" /\ w_ev # NULL
     /\ event_count(w_pre.ev, w_ev) > MAXIMUM_WAIT_OBJECTS \div 2) =>
    /\ ret = -1
    /\ ev = w_pre.ev
    /\ timers = w_pre.timers
    /\ net = w_pre.net
    /\ signaled = w_pre.signaled
    /\ objects = w_pre.objects

\* A ring over the capacity has been rejected while its first event was
\* OCCURRED from an earlier wait, the timer of that event signaled and the
\* timers of other events running.
C9_Witness ==
  /\ op.name = "waited" /\ w_ev # NULL /\ w_n = "NONE"
  /\ event_count(ev, w_ev) > MAXIMUM_WAIT_OBJECTS \div 2
  /\ ev[1].status = PTH_STATUS_OCCURRED
  /\ TmrHandle(1) \in signaled
  /\ \E h \in DOMAIN timers : timers[h].armed

(* ------------------------------------------------------------------ *)
(* The select specification: a caller that builds one SELECT event over *)
(* sockets and waits on it while the network makes them ready.          *)
(* ------------------------------------------------------------------ *)
\* The fd_sets the caller hands to pth_event: read {1, 2}, write {3} and an
\* empty except set; a socket in two sets with no except set; a descriptor
\* that is no socket and no write set; 40 descriptors to read and 40 to
\* write, 70 different ones in all (more than FD_SETSIZE), with socket 2 in
\* the except set as well.
SelArgs ==
  {[has |-> {"r", "w", "e"}, rfds |-> <<1, 2>>, wfds |-> <<3>>, efds |-> << >>, rc |-> -1],
   [has |-> {"r", "w"}, rfds |-> <<1>>, wfds |-> <<1, 2>>, efds |-> << >>, rc |-> -1],
   [has |-> {"r", "e"}, rfds |-> <<2, 5>>, wfds |-> << >>, efds |-> <<2, 3>>, rc |-> -1],
   [has |-> {"r", "w", "e"}, rfds |-> [i \in 1..40 |-> i],
    wfds |-> [i \in 1..40 |-> 30 + i], efds |-> <<2>>, rc |-> -1]}

\* The network conditions that come to hold.
SelConds == {"READ", "WRITE", "OOB"}

SelEvent ==
  /\ DOMAIN ev = {}
  /\ \E a \in SelArgs : pth_event([kind |-> "SELECT", mods |-> {}], a, "none")
  /\ Quiet

SelCall ==
  /\ \E e \in DOMAIN ev : WaitBegin(e, "wrap")
  /\ Quiet

SelReturn ==
  /\ WaitResume
  /\ Quiet

SelNet ==
  /\ \E fd \in Sockets : \E c \in SelConds : HostNetEvent(fd, c)
  /\ Quiet

SelNext == SelEvent \/ SelCall \/ SelReturn \/ SelNet

SpecSelect == Init /\ [][SelNext]_vars

(* ------------------------------------------------------------------ *)
(* C10: the fd_sets a SELECT event reports.                             *)
(* ------------------------------------------------------------------ *)
\* The SELECT events of the ring the last wait was called on.
SelectEvents ==
  IF w_ev = NULL THEN {}
  ELSE {n \in RingOf(w_pre.ev, w_ev) : w_pre.ev[n].u_type = "SELECT"}

SetOf(seq) == {seq[i] : i \in 1..Len(seq)}

\* One of the conditions cs holds on descriptor fd.
ReadyIn(fd, cs) == fd \in Sockets /\ ready[fd] \cap cs # {}

\* The descriptors of set which of the fd_sets in that are ready for cs.
ReadyOf(in, which, cs) == {fd \in SetOf(SelSet(in, which)) : ReadyIn(fd, cs)}

\* C10: after a wait that marked a SELECT event OCCURRED, each fd_set of the
\* event holds exactly the descriptors the caller put in it that are ready
\* in its direction, each once, and rc is the number of entries of the three
\* sets; for read {1, 2}, write {3}, except {} with 1 readable and 3 writable
\* that is read {1}, write {3}, except {} and rc 2.
C10_SelectOutput ==
  Waited =>
    \A n \in SelectEvents :
      ev[n].status = PTH_STATUS_OCCURRED =>
        LET in == w_pre.ev[n].sel
            out == ev[n].sel
        IN /\ SetOf(out.rfds) = ReadyOf(in, "r", NetRead)
           /\ SetOf(out.wfds) = ReadyOf(in, "w", NetWrite)
           /\ SetOf(out.efds) = ReadyOf(in, "e", NetExcept)
           /\ Len(out.rfds) = Cardinality(SetOf(out.rfds))
           /\ Len(out.wfds) = Cardinality(SetOf(out.wfds))
           /\ Len(out.efds) = Cardinality(SetOf(out.efds))
           /\ out.rc = Len(out.rfds) + Len(out.wfds) + Len(out.efds)

\* The wait has returned for the SELECT event over read {1, 2}, write {3},
\* except {} with exactly 1 readable and 3 writable.
C10_Witness ==
  /\ Waited
  /\ w_ev \in SelectEvents
  /\ w_pre.ev[w_ev].sel.rfds = <<1, 2>> /\ w_pre.ev[w_ev].sel.wfds = <<3>>
  /\ w_pre.ev[w_ev].sel.has = {"r", "w", "e"}
  /\ ready = [fd \in Sockets |-> IF fd = 1 THEN {"READ"} ELSE IF fd = 3 THEN {"WRITE"} ELSE {}]
  /\ ev[w_ev].status = PTH_STATUS_OCCURRED
  /\ ev[w_ev].sel.rfds = <<1>> /\ ev[w_ev].sel.wfds = <<3>> /\ ev[w_ev].sel.efds = << >>
  /\ ev[w_ev].sel.rc = 2

(* ------------------------------------------------------------------ *)
(* The gate specification: the main thread and the threads it spawns    *)
(* call public functions of every shape and end.                        *)
(* ------------------------------------------------------------------ *)
\* How often a thread takes the mutex it owns already.
MaxMutexCount == 1

\* The functions the threads of the gate specification call.
GateFns == {"pth_event", "pth_spawn", "pth_wait", "pth_write_ev",
            "pth_mutex_release"} \cup BlockFns

\* No event is built and no compound call is made.
NoEvents == UNCHANGED <<eventVars, io>>

GateCall ==
  /\ \E t \in Threads : \E f \in GateFns :
       /\ f = "pth_mutex_acquire" => mutex.count < MaxMutexCount \/ mutex.owner # t
       /\ ThreadCall(t, f)
  /\ NoEvents

GateBook ==
  /\ \E t \in Threads : ThreadBook(t)
  /\ NoEvents

GateUnblock ==
  /\ \E t \in Threads : ThreadUnblock(t)
  /\ NoEvents

GateAfter ==
  /\ \E t \in Threads : ThreadAfter(t)
  /\ NoEvents

GateStatus ==
  /\ \E t \in Threads : ThreadStatus(t)
  /\ NoEvents

GateReturn ==
  /\ \E t \in Threads : ThreadReturn(t)
  /\ NoEvents

GateLaunch ==
  /\ \E t \in Threads : ThreadLaunch(t)
  /\ NoEvents

GateStart ==
  /\ \E t \in Threads : ThreadStart(t)
  /\ NoEvents

GateFinish ==
  /\ \E t \in Threads : ThreadFinish(t)
  /\ NoEvents

GateExit ==
  /\ \E t \in Threads : ThreadExit(t)
  /\ NoEvents

GateNext ==
  \/ GateCall \/ GateBook \/ GateUnblock \/ GateAfter \/ GateStatus
  \/ GateReturn \/ GateLaunch \/ GateStart \/ GateFinish \/ GateExit

SpecGate == Init /\ [][GateNext]_vars

(* ------------------------------------------------------------------ *)
(* C11, C12, C14: what the gate serializes.                             *)
(* ------------------------------------------------------------------ *)
\* The threads inside the bookkeeping of a public function: between its
\* enter_pth and its leave_pth, and not in a blocking host call.
InBookkeeping == {t \in Threads : th[t].pc \in {"book", "after", "status"}}

\* C11: at most one thread at a time executes library bookkeeping (event
\* construction, the ring walks and status updates of the wait, event
\* freeing, thread spawning).
C11_OneInBookkeeping == Cardinality(InBookkeeping) <= 1

\* The blocking calls of pth_wait, pth_mutex_acquire, pth_read, pth_write,
\* pth_accept and pth_connect.
BlockedIn == {t \in Threads : th[t].pc = "blocked"
                              /\ th[t].fn \in BlockFns \cup {"pth_wait"}}

\* C12: a thread blocked in the host call of pth_wait, pth_mutex_acquire,
\* pth_read, pth_write, pth_accept or pth_connect does not hold the gate.
C12_BlockedWithoutGate == \A t \in BlockedIn : gate.owner # t

\* C14: once every spawned thread has run its body to the end and exited,
\* the thread counter has the value it had before the first spawn.
C14_CounterRestored ==
  (/\ th[MainThread].pc = "user"
   /\ \A t \in Threads \ {MainThread} : th[t].pc = "dead") =>
    thread_counter = 1

(* ------------------------------------------------------------------ *)
(* The mutex specification: the main thread and the threads it spawns   *)
(* acquire and release one mutex, and spawned threads end, also while   *)
(* they own it.                                                         *)
(* ------------------------------------------------------------------ *)
MutexFns == {"pth_spawn", "pth_mutex_acquire", "pth_mutex_release"}

MxCall ==
  /\ \E t \in Threads : \E f \in MutexFns :
       /\ f = "pth_mutex_acquire" => mutex.count < MaxMutexCount \/ mutex.owner # t
       /\ ThreadCall(t, f)
  /\ NoEvents

MxNext ==
  \/ MxCall \/ GateBook \/ GateUnblock \/ GateReturn
  \/ GateLaunch \/ GateStart \/ GateFinish \/ GateExit

SpecMutex == Init /\ [][MxNext]_vars

(* ------------------------------------------------------------------ *)
(* C13: mutual exclusion of the mutex.                                  *)
(* ------------------------------------------------------------------ *)
\* C13: no two calls of pth_mutex_acquire of two threads that were in
\* progress at the same time are both returned TRUE without a successful
\* pth_mutex_release between the two returns.
C13_MutualExclusion == hist.both = {}

\* A thread was returned TRUE while the call of another thread was in
\* progress, and that call is still blocked.
C13_Witness ==
  \E p \in hist.pending :
    th[p[2]].pc = "blocked" /\ th[p[2]].fn = "pth_mutex_acquire"

(* ------------------------------------------------------------------ *)
(* The status specification: the caller of the wait specification also  *)
(* queries the status of its events between its other calls.            *)
(* ------------------------------------------------------------------ *)
StatusQuery ==
  /\ \E e \in DOMAIN ev \cup {NULL} : pth_event_status(e)
  /\ Quiet

StatusNext == WaitNext \/ StatusQuery

SpecStatus == Init /\ [][StatusNext]_vars

(* ------------------------------------------------------------------ *)
(* C15: the status query.                                               *)
(* ------------------------------------------------------------------ *)
\* C15: pth_event_status returns the status of the event (0 for NULL) and
\* changes no event (status and links) and not the thread counter; a query
\* that follows a query of the same event returns the same value.
C15_StatusQuery ==
  [][op'.name = "status" =>
       LET e == op'.arg[1]
       IN /\ ret' = (IF e = NULL THEN 0 ELSE ev[e].status)
          /\ ev' = ev
          /\ thread_counter' = thread_counter
          /\ (op.name = "status" /\ op.arg = op'.arg) => ret' = ret]_vars

\* The status of an event that a wait found occurred has been queried.
C15_Witness ==
  /\ op.name = "status"
  /\ op.arg[1] # NULL
  /\ ret = PTH_STATUS_OCCURRED

(* ------------------------------------------------------------------ *)
(* The construction specification: a caller that constructs events     *)
(* with and without the modifiers, on a host that may refuse the node   *)
(* or the native object, and frees them one by one.                     *)
(* ------------------------------------------------------------------ *)
\* The kinds that differ in do_pth_event_body: no native object, a timer,
\* an event object, an event object with registrations.
CtorKinds == {"HANDLE", "TIME", "FD", "SELECT"}
CtorMods == {{}, {"STATIC"}, {"CHAIN"}, {"REUSE"}}
CtorHosts == {"none", "calloc", "handle"}

\* One argument for each kind.
CtorArg(kind) ==
  CASE kind = "HANDLE" -> RawHandle(1)
    [] kind = "FD"     -> 1
    [] kind = "TIME"   -> <<1, 0>>
    [] kind = "SELECT" -> [has |-> {"r", "w"}, rfds |-> <<1>>, wfds |-> <<2>>,
                           efds |-> << >>, rc |-> -1]
    [] OTHER           -> 0

CtorEvent ==
  /\ Cardinality(DOMAIN ev) < NumWaitEvents
  /\ \E kind \in CtorKinds : \E mods \in CtorMods : \E host \in CtorHosts :
       pth_event([kind |-> kind, mods |-> mods], CtorArg(kind), host)
  /\ Quiet

CtorFree ==
  /\ \E e \in DOMAIN ev : pth_event_free(e, "THIS")
  /\ Quiet

CtorNext == CtorEvent \/ CtorFree

SpecCtor == Init /\ [][CtorNext]_vars

(* ------------------------------------------------------------------ *)
(* C16: failing construction.                                           *)
(* ------------------------------------------------------------------ *)
\* C16: pth_event returns NULL when PTH_MODE_CHAIN or PTH_MODE_REUSE is
\* given and when the host refuses the native event or timer object of a
\* kind that needs one; after such a call the events, the native objects,
\* the timers and the registrations are what they were before it.
C16_FailedConstruction ==
  [][op'.name = "event" =>
       LET spec == op'.arg[1]
           host == op'.arg[2]
       IN (spec.mods \cap {"CHAIN", "REUSE"} # {}
             \/ (spec.kind # "HANDLE" /\ host = "handle")) =>
            /\ ret' = NULL
            /\ ev' = ev
            /\ objects' = objects
            /\ signaled' = signaled
            /\ timers' = timers
            /\ net' = net]_vars

\* The host has refused the timer object of a TIME event while another
\* event was live.
C16_Witness ==
  /\ op.name = "event"
  /\ op.arg[1].kind = "TIME" /\ op.arg[1].mods \cap {"CHAIN", "REUSE"} = {}
  /\ op.arg[2] = "handle"
  /\ ret = NULL
  /\ DOMAIN ev # {}

(* ------------------------------------------------------------------ *)
(* C17: freeing.                                                        *)
(* ------------------------------------------------------------------ *)
\* The members of a sequence are all different.
NoRepeat(seq) == \A i \in 1..Len(seq) : \A j \in 1..Len(seq) : i # j => seq[i] # seq[j]

\* What a step that is a call pth_event_free (e, mode) does.
FreePost(e, mode) ==
  LET walk == FreeWalk(ev, e, mode)
      closes == CloseWalk(ev, walk)
      R == RingOf(ev, e)
  IN /\ NoRepeat(walk)
     /\ SetOf(walk) = (IF mode = "ALL" THEN R ELSE {e})
     /\ DOMAIN ev' = DOMAIN ev \ SetOf(walk)
     /\ mode = "THIS" =>
          /\ \A m \in R \ {e} :
               /\ RingOf(ev', m) = R \ {e}
               /\ NodeLinked(ev', m)
          /\ ValidRings(ev')
     /\ \A m \in DOMAIN ev \ R : ev'[m] = ev[m]
     /\ NoRepeat(closes)
     /\ SetOf(closes) \subseteq objects
     /\ objects \ objects' = SetOf(closes)
     /\ \A n \in SetOf(walk) : ev[n].u_type = "HANDLE" => ev[n].hd \in objects'

\* C17: pth_event_free with PTH_FREE_ALL hands every node of the ring to
\* _pth_free exactly once; with PTH_FREE_THIS only the given node, and the
\* other nodes of its ring are a valid ring afterwards; the native object
\* of each freed node is closed exactly once, and the handle of a
\* PTH_EVENT_HANDLE event is not closed.
C17_Free ==
  [][(op'.name = "free" /\ op'.arg[1] # NULL) => FreePost(op'.arg[1], op'.arg[2])]_vars

\* PTH_FREE_ALL has been called on the second event while a TIME event
\* stays live: the timers of events 1 and 2 are closed, the raw handle is
\* open.
C17_Witness ==
  /\ op.name = "free" /\ op.arg = <<2, "ALL">>
  /\ ret = 1
  /\ DOMAIN ev = {3}
  /\ ev[3].u_type = "TIME"
  /\ RawHandle(1) \in objects
  /\ {TmrHandle(1), TmrHandle(2)} \cap objects = {}

(* ------------------------------------------------------------------ *)
(* The compound calls: pth_read_ev, pth_write_ev, pth_accept_ev,        *)
(* pth_select_ev, pth_sleep and pth_usleep made by the main thread, one *)
(* step for each call they make.  io holds the position pc in the       *)
(* function, its arguments (fn, arg, extra, tmo), its locals (ev,       *)
(* ev_time), the value it returns (rv), the errno it sets and, as       *)
(* history, the state it was called in (pre), the number of events it   *)
(* constructed (made), whether it waited, whether the host refused an   *)
(* event, whether it found its own event OCCURRED (fired) and whether   *)
(* it made the read or write (done); nonblock tells whether the         *)
(* descriptor of pth_accept_ev is in non-blocking mode, sets holds the  *)
(* fd_sets of the caller of pth_select_ev once rc is computed.          *)
(* ------------------------------------------------------------------ *)
EvFns == {"pth_read_ev", "pth_write_ev", "pth_accept_ev", "pth_select_ev"}
SleepFns == {"pth_sleep", "pth_usleep"}

\* The descriptor, the fd_sets and the timeout the calls are made with.
IoFd == 1
IoSel == [has |-> {"r", "w"}, rfds |-> <<IoFd>>, wfds |-> <<IoFd>>, efds |-> << >>, rc |-> -1]
IoTimeout == <<1, 0>>

\* The spec and the argument of the helper event of each function.
HelperSpec(fn) ==
  CASE fn \in {"pth_read_ev", "pth_accept_ev"} ->
         [kind |-> "FD", mods |-> {"READABLE", "STATIC"}]
    [] fn = "pth_write_ev"  -> [kind |-> "FD", mods |-> {"STATIC"}]
    [] fn = "pth_select_ev" -> [kind |-> "SELECT", mods |-> {}]
    [] OTHER                -> [kind |-> "TIME", mods |-> {"STATIC"}]

HelperArg(fn, n) ==
  CASE fn = "pth_select_ev" -> IoSel
    [] fn = "pth_sleep"     -> <<n, 0>>
    [] fn = "pth_usleep"    -> <<0, n>>
    [] OTHER                -> IoFd

\* The return before any event is made: pth_sleep (0) and pth_usleep (0);
\* in pth_accept_ev a failing pth_fdmode, and a first accept that succeeds
\* or fails with an error other than WSAEWOULDBLOCK and WSAEINPROGRESS.
EarlyReturns(fn, n) ==
  IF fn \in SleepFns THEN (IF n = 0 THEN {"zero"} ELSE {"none"})
  ELSE IF fn = "pth_accept_ev" THEN {"none", "fdmode", "accepted", "failed"}
  ELSE {"none"}

\* The mode of the do_pth_event_free calls of the six functions.
IoFreeMode_All == "ALL"
IoFreeMode == "THIS"

\* What is unchanged by every step of a compound call.
IoRest == UNCHANGED <<th, thread_counter, mutex, hist>>

\* Where the function goes when do_pth_wait has returned rc, with
\* NO_PTH_MODE_STATIC not defined for pth_sleep and pth_usleep.
AfterWait_SleepNoFree(I, rc) ==
  LET J == [I EXCEPT !.waited = TRUE]
  IN CASE I.fn \in {"pth_read_ev", "pth_write_ev"} ->
            [J EXCEPT !.pc = IF I.extra # NULL THEN "isolate" ELSE "free1"]
       [] I.fn = "pth_accept_ev" ->
            [J EXCEPT !.pc = IF I.extra # NULL THEN "isolate" ELSE "accept"]
       [] I.fn = "pth_select_ev" ->
            IF rc < 0 THEN [J EXCEPT !.pc = "free1", !.rv = -1]
            ELSE IF rc = 0 THEN [J EXCEPT !.pc = "wait"]
            ELSE [J EXCEPT !.pc = "isolate"]
       [] I.fn = "pth_wait" -> [J EXCEPT !.pc = "ret", !.rv = rc]
       [] OTHER -> [J EXCEPT !.pc = "ret", !.rv = 0]

\* Where the function goes when do_pth_wait has returned rc.
AfterWait(I, rc) ==
  LET J == [I EXCEPT !.waited = TRUE]
  IN CASE I.fn \in {"pth_read_ev", "pth_write_ev"} ->
            [J EXCEPT !.pc = IF I.extra # NULL THEN "isolate" ELSE "free1"]
       [] I.fn = "pth_accept_ev" ->
            [J EXCEPT !.pc = IF I.extra # NULL THEN "isolate" ELSE "accept"]
       [] I.fn = "pth_select_ev" ->
            IF rc < 0 THEN [J EXCEPT !.pc = "free1", !.rv = -1]
            ELSE IF rc = 0 THEN [J EXCEPT !.pc = "wait"]
            ELSE [J EXCEPT !.pc = "isolate"]
       [] I.fn = "pth_wait" -> [J EXCEPT !.pc = "ret", !.rv = rc]
       [] OTHER -> [J EXCEPT !.pc = "free1", !.rv = 0]

\* The value pth_select_ev computes from the statuses after the isolation.
SelectRv(E, I) ==
  LET selected == E[I.ev].status = PTH_STATUS_OCCURRED
      timedout == I.tmo /\ E[I.ev_time].status = PTH_STATUS_OCCURRED
  IN IF I.extra # NULL /\ ~(selected \/ timedout) THEN -1
     ELSE IF timedout THEN 0
     ELSE IF selected THEN E[I.ev].sel.rc
     ELSE I.rv

\* The errno pth_select_ev sets.
SelectErrno(E, I) ==
  LET selected == E[I.ev].status = PTH_STATUS_OCCURRED
      timedout == I.tmo /\ E[I.ev_time].status = PTH_STATUS_OCCURRED
  IN IF I.extra # NULL /\ ~(selected \/ timedout) THEN "EINTR" ELSE I.errno

\* The fd_sets of the caller (rfds, wfds, efds) after the computation of
\* rc: as the wait left them, or emptied by FD_ZERO.
SelectSets(E, I) ==
  LET timedout == I.tmo /\ E[I.ev_time].status = PTH_STATUS_OCCURRED
  IN IF timedout THEN << << >>, << >>, << >> >>
     ELSE <<E[I.ev].sel.rfds, E[I.ev].sel.wfds, E[I.ev].sel.efds>>

\* enter_pth and the statements up to the first do_pth_event.
IoCall(fn, n, extra, tmo, host, early) ==
  /\ io.pc = "idle"
  /\ gate.owner = MainThread
  /\ gate' = enter_pth(gate, MainThread, "ignored")
  /\ LET rec == [NoIo EXCEPT
                   !.fn = fn, !.arg = n, !.extra = extra, !.tmo = tmo,
                   !.pre = [ring |-> IF extra = NULL THEN {} ELSE RingOf(ev, extra),
                            dom |-> DOMAIN ev, objects |-> objects,
                            timers |-> DOMAIN timers, gate |-> gate]]
     IN IF early # "none"
        THEN /\ w_pc = "idle"
             /\ io' = [rec EXCEPT !.pc = "ret",
                                   !.rv = IF early \in {"fdmode", "failed"} THEN -1 ELSE 0]
             /\ op' = [name |-> "io", arg |-> <<fn>>]
             /\ NoWaitFrame
             /\ UNCHANGED <<ev, hostVars, ret>>
        ELSE /\ pth_event(HelperSpec(fn), HelperArg(fn, n), host)
             /\ io' = IF ret' = NULL
                      THEN [rec EXCEPT !.pc = "ret", !.rv = -1, !.refused = TRUE,
                                       !.nonblock = (fn = "pth_accept_ev")]
                      ELSE [rec EXCEPT
                              !.ev = ret', !.made = 1,
                              !.nonblock = (fn = "pth_accept_ev"),
                              !.pc = IF fn = "pth_select_ev" /\ tmo THEN "time"
                                     ELSE IF extra # NULL THEN "concat"
                                     ELSE "wait"]
  /\ IoRest

\* pth_select_ev: the do_pth_event of ev_time.
IoTime(host) ==
  /\ io.pc = "time"
  /\ pth_event([kind |-> "TIME", mods |-> {}], IoTimeout, host)
  /\ io' = IF ret' = NULL
           THEN [io EXCEPT !.pc = "free1", !.rv = -1, !.refused = TRUE]
           ELSE [io EXCEPT !.ev_time = ret', !.made = @ + 1, !.pc = "concat_time"]
  /\ UNCHANGED gate
  /\ IoRest

\* pth_select_ev: pth_event_concat (ev, ev_time, NULL).
IoConcatTime ==
  /\ io.pc = "concat_time"
  /\ pth_event_concat(io.ev, <<io.ev_time>>)
  /\ io' = [io EXCEPT !.pc = IF io.extra # NULL THEN "concat" ELSE "wait"]
  /\ UNCHANGED gate
  /\ IoRest

\* pth_event_concat (ev, ev_extra, NULL).
IoConcat ==
  /\ io.pc = "concat"
  /\ pth_event_concat(io.ev, <<io.extra>>)
  /\ io' = [io EXCEPT !.pc = "wait"]
  /\ UNCHANGED gate
  /\ IoRest

\* do_pth_wait (ev) up to WaitForMultipleObjects.
IoWait ==
  /\ io.pc = "wait"
  /\ WaitBegin(io.ev, "wrap")
  /\ io' = IF w_pc' = "blocked" THEN [io EXCEPT !.pc = "blocked"]
           ELSE AfterWait(io, ret')
  /\ UNCHANGED gate
  /\ IoRest

\* do_pth_wait (ev) from the return of WaitForMultipleObjects.
IoWaited ==
  /\ io.pc = "blocked"
  /\ WaitResume
  /\ io' = AfterWait(io, ret')
  /\ UNCHANGED gate
  /\ IoRest

\* pth_event_isolate (ev) and the test of the status of ev that follows it;
\* in pth_write_ev the test calls the public pth_event_status, which starts
\* with an enter_pth of its own.
IoIsolate ==
  /\ io.pc = "isolate"
  /\ pth_event_isolate(io.ev)
  /\ LET occurred == ev[io.ev].status = PTH_STATUS_OCCURRED
     IN CASE io.fn = "pth_read_ev" ->
               /\ io' = [io EXCEPT !.pc = "free1", !.rv = IF occurred THEN 0 ELSE -1,
                                   !.fired = occurred,
                                   !.errno = IF occurred THEN @ ELSE "EINTR"]
               /\ UNCHANGED gate
          [] io.fn = "pth_write_ev" ->
               /\ io' = [io EXCEPT !.pc = "status"]
               /\ \E outcome \in LeaveOutcomes :
                    gate' = enter_pth(gate, MainThread, outcome)
          [] io.fn = "pth_accept_ev" ->
               /\ io' = IF occurred THEN [io EXCEPT !.pc = "accept"]
                        ELSE [io EXCEPT !.pc = "free1", !.rv = -1]
               /\ UNCHANGED gate
          [] OTHER ->
               /\ io' = IF io.tmo THEN [io EXCEPT !.pc = "isolate_time"]
                        ELSE [io EXCEPT !.pc = "free1", !.rv = SelectRv(ev, io),
                                        !.errno = SelectErrno(ev, io),
                                        !.sets = SelectSets(ev, io)]
               /\ UNCHANGED gate
  /\ IoRest

\* pth_write_ev: the pth_event_status it called reads the status and
\* passes its leave_pth; the test of what it returned.
IoStatus ==
  /\ io.pc = "status"
  /\ CanEnter(gate, MainThread)
  /\ gate' = leave_pth(gate, MainThread)
  /\ LET occurred == ev[io.ev].status = PTH_STATUS_OCCURRED
     IN io' = [io EXCEPT !.pc = "free1", !.rv = IF occurred THEN 0 ELSE -1,
                         !.fired = occurred,
                         !.errno = IF occurred THEN @ ELSE "EINTR"]
  /\ UNCHANGED eventVars
  /\ IoRest

\* pth_select_ev: pth_event_isolate (ev_time) and the computation of rc.
IoIsolateTime ==
  /\ io.pc = "isolate_time"
  /\ pth_event_isolate(io.ev_time)
  /\ io' = [io EXCEPT !.pc = "free1", !.rv = SelectRv(ev, io),
                      !.errno = SelectErrno(ev, io), !.sets = SelectSets(ev, io)]
  /\ UNCHANGED gate
  /\ IoRest

\* What accept does in the loop of pth_accept_ev: it returns a socket, it
\* fails with WSAEWOULDBLOCK or WSAEINPROGRESS, or it fails otherwise.
AcceptResults == {"accepted", "wouldblock", "failed"}

\* pth_accept_ev: the next accept of the loop.
IoAccept(result) ==
  /\ io.pc = "accept"
  /\ io' = CASE result = "accepted" -> [io EXCEPT !.pc = "free1", !.rv = 0]
             [] result = "failed" -> [io EXCEPT !.pc = "free1", !.rv = -1]
             [] OTHER -> [io EXCEPT !.pc = "wait"]
  /\ UNCHANGED <<eventVars, gate>>
  /\ IoRest

\* What do_pth_read and do_pth_write return: -1 with the errno of the
\* host call, or the number of bytes.
IoResults == {-1, 0, 1}

\* do_pth_event_free (ev, PTH_FREE_THIS); in pth_read_ev and pth_write_ev,
\* unless they return -1 for an event that did not occur, do_pth_read or
\* do_pth_write follows; in pth_accept_ev pth_fdmode (fd, fdmode) follows,
\* fdmode being PTH_FDMODE_BLOCK.
IoFree ==
  /\ io.pc = "free1"
  /\ pth_event_free(io.ev, IoFreeMode)
  /\ IF io.fn \in {"pth_read_ev", "pth_write_ev"} /\ io.rv = 0
     THEN \E n \in IoResults :
            io' = [io EXCEPT !.pc = "ret", !.done = TRUE, !.rv = n,
                             !.errno = IF n = -1 THEN "EIO" ELSE @]
     ELSE io' = [io EXCEPT !.pc = IF io.fn = "pth_select_ev" THEN "free2" ELSE "ret",
                           !.nonblock = FALSE]
  /\ UNCHANGED gate
  /\ IoRest

\* pth_select_ev: do_pth_event_free (ev_time, PTH_FREE_THIS).
IoFreeTime ==
  /\ io.pc = "free2"
  /\ pth_event_free(io.ev_time, IoFreeMode)
  /\ io' = [io EXCEPT !.pc = "ret"]
  /\ UNCHANGED gate
  /\ IoRest

\* leave_pth and the return.
IoReturn ==
  /\ io.pc = "ret"
  /\ CanEnter(gate, MainThread)
  /\ gate' = leave_pth(gate, MainThread)
  /\ io' = [io EXCEPT !.pc = "idle"]
  /\ UNCHANGED eventVars
  /\ IoRest

(* ------------------------------------------------------------------ *)
(* The compound call specification: the main thread builds a ring of   *)
(* HANDLE events, passes it (or none) to pth_read_ev, pth_write_ev,     *)
(* pth_accept_ev and pth_select_ev, and frees it; the host signals      *)
(* handles, lets timers expire and makes the socket ready.              *)
(* ------------------------------------------------------------------ *)
IoHosts == {"none", "handle"}
IoArgs == {0, 1, 2}

IoEvent ==
  /\ io.pc = "idle"
  /\ Cardinality(DOMAIN ev) < NumWaitEvents
  /\ DOMAIN ev # {} => RingOf(ev, 1) = DOMAIN ev
  /\ pth_event([kind |-> "HANDLE", mods |-> {}], RawHandle(1), "none")
  /\ io' = NoIo
  /\ UNCHANGED gate
  /\ IoRest

IoRing ==
  /\ io.pc = "idle"
  /\ 1 \in DOMAIN ev
  /\ \E a \in DOMAIN ev \ RingOf(ev, 1) : pth_event_concat(1, <<a>>)
  /\ io' = NoIo
  /\ UNCHANGED gate
  /\ IoRest

IoFreeRing ==
  /\ io.pc = "idle"
  /\ 1 \in DOMAIN ev
  /\ RingOf(ev, 1) = DOMAIN ev
  /\ pth_event_free(1, "ALL")
  /\ io' = NoIo
  /\ UNCHANGED gate
  /\ IoRest

IoStartOf(fns) ==
  \E fn \in fns :
    \E n \in (IF fn \in SleepFns THEN IoArgs ELSE {0}) :
      \E extra \in (IF fn \in EvFns THEN DOMAIN ev \cup {NULL} ELSE {NULL}) :
        \E tmo \in (IF fn = "pth_select_ev" THEN BOOLEAN ELSE {FALSE}) :
          \E host \in IoHosts : \E early \in EarlyReturns(fn, n) :
            IoCall(fn, n, extra, tmo, host, early)

IoStart == IoStartOf(EvFns)

IoTimeStep == \E host \in IoHosts : IoTime(host)

IoAcceptStep == \E result \in AcceptResults : IoAccept(result)

\* The steps of the host are taken while the function is blocked in
\* WaitForMultipleObjects: the other steps of the function neither read
\* nor write the signaled states, and what the host did before a call is
\* in the state the call starts in.
IoHostTurn == w_pc = "blocked"

IoSetEvent ==
  /\ IoHostTurn
  /\ HostSetEvent(RawHandle(1))
  /\ Quiet

IoTimerExpire ==
  /\ IoHostTurn
  /\ \E h \in DOMAIN timers : HostTimerExpire(h)
  /\ Quiet

IoNetEvent ==
  /\ IoHostTurn
  /\ \E c \in {"READ", "WRITE"} : HostNetEvent(IoFd, c)
  /\ Quiet

IoNext ==
  \/ IoEvent \/ IoRing \/ IoFreeRing
  \/ IoStart \/ IoTimeStep \/ IoConcatTime \/ IoConcat \/ IoWait \/ IoWaited
  \/ IoIsolate \/ IoStatus \/ IoIsolateTime \/ IoAcceptStep
  \/ IoFree \/ IoFreeTime \/ IoReturn
  \/ IoSetEvent \/ IoTimerExpire \/ IoNetEvent

SpecIo == Init /\ [][IoNext]_vars

(* ------------------------------------------------------------------ *)
(* C18: the extra ring of the compound calls.                           *)
(* ------------------------------------------------------------------ *)
\* The handles of the events and timers the library makes for its events.
EventHandles(H) == {h \in H : h[1] \in {"evt", "tmr"}}

\* C18: when pth_read_ev, pth_write_ev, pth_accept_ev or pth_select_ev has
\* returned, whatever it returns, the ring of ev_extra consists of the nodes
\* it consisted of at the call, linked as a valid ring, none of them is
\* freed, and the events the function made are freed: the live events and
\* their native objects are those of the call.
C18_ExtraRingKept ==
  (io.pc = "idle" /\ io.fn \in EvFns) =>
    /\ io.pre.ring \subseteq DOMAIN ev
    /\ io.extra # NULL => RingOf(ev, io.extra) = io.pre.ring
    /\ \A m \in io.pre.ring : NodeLinked(ev, m)
    /\ DOMAIN ev = io.pre.dom
    /\ EventHandles(objects) = EventHandles(io.pre.objects)
    /\ DOMAIN timers = io.pre.timers

\* pth_select_ev with a timeout and an extra ring of two events has
\* returned -1 after it waited: it was interrupted by the extra ring.
C18_Witness ==
  /\ io.pc = "idle" /\ io.fn = "pth_select_ev"
  /\ io.tmo /\ io.made = 2 /\ io.waited
  /\ Cardinality(io.pre.ring) = 2
  /\ io.rv = -1

(* ------------------------------------------------------------------ *)
(* The sleep specification: the main thread, which may own a ring of    *)
(* HANDLE events, calls pth_sleep and pth_usleep; the host lets the     *)
(* timer expire.                                                        *)
(* ------------------------------------------------------------------ *)
SleepStart == IoStartOf(SleepFns)

SleepNext ==
  \/ IoEvent \/ IoRing \/ IoFreeRing
  \/ SleepStart \/ IoWait \/ IoWaited \/ IoFree \/ IoReturn
  \/ IoTimerExpire

SpecSleep == Init /\ [][SleepNext]_vars

(* ------------------------------------------------------------------ *)
(* C20: pth_sleep and pth_usleep.                                       *)
(* ------------------------------------------------------------------ *)
\* C20: when pth_sleep or pth_usleep has returned, the main thread owns
\* pth_shd again and the events, the timers and the host objects are those
\* of the call; with the argument 0 it made no event, did not wait and
\* returns 0; with another argument it made one TIME event, waited on it
\* and returns 0, or the host refused the event and it returns -1.
C20_Sleep ==
  (io.pc = "idle" /\ io.fn \in SleepFns) =>
    /\ gate.owner = MainThread /\ gate.count >= 1
    /\ DOMAIN ev = io.pre.dom
    /\ DOMAIN timers = io.pre.timers
    /\ objects = io.pre.objects
    /\ io.arg = 0 => (io.rv = 0 /\ io.made = 0 /\ ~io.waited)
    /\ (io.arg # 0 /\ ~io.refused) => (io.rv = 0 /\ io.made = 1 /\ io.waited)
    /\ (io.arg # 0 /\ io.refused) => (io.rv = -1 /\ io.made = 0 /\ ~io.waited)

\* pth_usleep with a nonzero argument has returned 0 after its wait, while
\* the caller has events of its own.
C20_Witness ==
  /\ io.pc = "idle" /\ io.fn = "pth_usleep"
  /\ io.arg # 0 /\ io.made = 1 /\ io.waited
  /\ io.rv = 0
  /\ DOMAIN ev # {}

(* ------------------------------------------------------------------ *)
(* The cancel specification: the main thread and the threads it spawns  *)
(* call pth_spawn, pth_write_ev, pth_cancel and pth_abort, each handle  *)
(* being passed to pth_cancel or pth_abort once; spawned threads end.   *)
(* ------------------------------------------------------------------ *)
CnCall ==
  /\ \E t \in Threads : \E f \in {"pth_spawn", "pth_write_ev"} : ThreadCall(t, f)
  /\ NoEvents

CnCancel ==
  /\ \E t \in Threads : \E f \in CancelFns : \E u \in Threads : ThreadCancel(t, f, u)
  /\ NoEvents

CnCancelNull ==
  /\ \E t \in Threads : ThreadCancelNull(t)
  /\ NoEvents

CnKill ==
  /\ \E t \in Threads : ThreadKill(t)
  /\ NoEvents

CnDec ==
  /\ \E t \in Threads : ThreadCancelDec(t)
  /\ NoEvents

CnNext ==
  \/ CnCall \/ CnCancel \/ CnCancelNull \/ CnKill \/ CnDec
  \/ GateBook \/ GateUnblock \/ GateAfter \/ GateStatus \/ GateReturn
  \/ GateLaunch \/ GateStart \/ GateFinish \/ GateExit

SpecCancel == Init /\ [][CnNext]_vars

(* ------------------------------------------------------------------ *)
(* C19: the thread counter in pth_cancel and pth_abort.                 *)
(* ------------------------------------------------------------------ *)
\* C19: a call of pth_cancel or pth_abort with a handle takes one from the
\* thread counter if TerminateThread succeeded and only then, and leaves
\* it as it is otherwise; a call with NULL changes nothing.
C19_CancelCounter ==
  [][\A t \in Threads :
       /\ (th[t].pc = "cdec" /\ th'[t].pc = "user") =>
            thread_counter' = thread_counter - 1
       /\ (th[t].pc = "reacq" /\ th'[t].pc = "cdec") =>
            (th[t].ok = 1 /\ thread_counter' = thread_counter)
       /\ (th[t].pc = "reacq" /\ th[t].fn \in CancelFns /\ th'[t].pc = "user") =>
            (th[t].ok = 0 /\ thread_counter' = thread_counter)
       /\ (th[t].pc = "user" /\ th[t].ok # -1 /\ th'[t].ok = -1) =>
            (thread_counter' = thread_counter /\ gate' = gate /\ mutex' = mutex)]_vars

(* ------------------------------------------------------------------ *)
(* The kinds specification: a caller that grows one ring of events of   *)
(* every kind and waits on it again and again, while other threads set  *)
(* the objects of its events, timers expire and the network makes its   *)
(* sockets ready.                                                       *)
(* ------------------------------------------------------------------ *)
\* The events the caller of the kinds specification holds at a time.
NumKindEvents == 2

\* The calls of pth_event of the kinds specification: <<spec, arg>>.  The
\* FD events are on a socket (read and write), on the pipe of the backend
\* and on a plain file; the SELECT event has socket 3 in its read set.
KindInputs ==
  {<<[kind |-> "NONE", mods |-> {}], 0>>,
   <<[kind |-> "MUTEX", mods |-> {}], 0>>,
   <<[kind |-> "SIGS", mods |-> {}], 0>>,
   <<[kind |-> "HANDLE", mods |-> {}], RawHandle(1)>>,
   <<[kind |-> "TIME", mods |-> {}], <<1, 0>> >>,
   <<[kind |-> "FD", mods |-> {"READABLE"}], 1>>,
   <<[kind |-> "FD", mods |-> {}], 2>>,
   <<[kind |-> "FD", mods |-> {"READABLE"}], 4>>,
   <<[kind |-> "FD", mods |-> {"READABLE"}], 5>>,
   <<[kind |-> "SELECT", mods |-> {}],
     [has |-> {"r"}, rfds |-> <<3>>, wfds |-> << >>, efds |-> << >>, rc |-> -1]>>}

\* The objects other threads set: the object of an event made with spec 0
\* (set_event (ev->hd), as the thread of main_1 does), the handle of a
\* HANDLE event, the signal event and the readiness events of the backend.
KindSettable ==
  {ev[n].hd : n \in {m \in DOMAIN ev : ev[m].u_type \in {"NONE", "HANDLE"}}}
  \cup (IF \E n \in DOMAIN ev : ev[n].u_type = "SIGS" THEN {pth_signo_ev} ELSE {})
  \cup {pth_get_reader_ev(ev[n].fd) :
          n \in {m \in DOMAIN ev : ev[m].u_type = "FD" /\ ev[m].fd \in PipeFds}}

\* The sockets of the events, with the condition each is waited for.
KindSockets ==
  {<<ev[n].fd, IF "READABLE" \in ev[n].flags THEN "READ" ELSE "WRITE">> :
     n \in {m \in DOMAIN ev : ev[m].u_type = "FD" /\ ev[m].fd \in Sockets}}
  \cup {<<fd, "READ">> :
          fd \in UNION {SetOf(ev[n].sel.rfds) \cap Sockets :
                          n \in {m \in DOMAIN ev : ev[m].u_type = "SELECT"}}}

KindEvent ==
  /\ Cardinality(DOMAIN ev) < NumKindEvents
  /\ DOMAIN ev # {} => RingOf(ev, 1) = DOMAIN ev
  /\ \E in \in KindInputs : pth_event(in[1], in[2], "none")
  /\ Quiet

KindConcat ==
  /\ 1 \in DOMAIN ev
  /\ \E a \in DOMAIN ev \ RingOf(ev, 1) : pth_event_concat(1, <<a>>)
  /\ Quiet

\* The wait starts at the first event: the inputs put every kind in every
\* place of the ring.
KindCall ==
  /\ 1 \in DOMAIN ev
  /\ RingOf(ev, 1) = DOMAIN ev
  /\ WaitBegin(1, "wrap")
  /\ Quiet

KindReturn ==
  /\ WaitResume
  /\ Quiet

KindSetEvent ==
  /\ \E h \in KindSettable : HostSetEvent(h)
  /\ Quiet

KindTimerExpire ==
  /\ \E h \in DOMAIN timers : HostTimerExpire(h)
  /\ Quiet

KindNet ==
  /\ \E s \in KindSockets : HostNetEvent(s[1], s[2])
  /\ Quiet

KindNext ==
  \/ KindEvent \/ KindConcat \/ KindCall \/ KindReturn
  \/ KindSetEvent \/ KindTimerExpire \/ KindNet

SpecKinds == Init /\ [][KindNext]_vars

(* ------------------------------------------------------------------ *)
(* C21: the wait on an event made with spec 0.                          *)
(* ------------------------------------------------------------------ *)
\* The ring the last wait was called on is one event made with spec 0.
NoneOnly ==
  /\ w_ev # NULL
  /\ RingOf(ev, w_ev) = {w_ev}
  /\ ev[w_ev].u_type = "NONE"

\* C21: a wait on an event made with the empty kind specification returns
\* only once the event's own native object has been signaled, and then with
\* the event OCCURRED.
C21_EmptySpecWait ==
  (op.name = "waited" /\ NoneOnly) =>
     /\ ev[w_ev].status = PTH_STATUS_OCCURRED
     /\ ev[w_ev].hd \in w_pre.signaled \cup w_env
     /\ ret = 1

(* ------------------------------------------------------------------ *)
(* C22: enter_pth and leave_pth alternate.                              *)
(* ------------------------------------------------------------------ *)
\* Thread t makes a step that passes enter_pth: the start of a public
\* function, the pth_event_status inside pth_write_ev, the end of
\* launch_thread.
PassesEnter(t) ==
  \/ th[t].pc = "user" /\ th'[t].pc \in {"book", "blocked", "kill"}
  \/ th[t].pc = "after" /\ th'[t].pc = "status"
  \/ /\ th[t].pc = "dec" /\ th'[t].pc = "dead"
     /\ \A k \in Threads : th[k].pc = "kill" => th'[k].pc = "kill"

\* Thread t makes a step that passes leave_pth: the end of a public
\* function, of the pth_event_status inside pth_write_ev, the start of
\* launch_thread.
PassesLeave(t) ==
  \/ th[t].pc = "reacq" /\ th'[t].pc \in {"user", "cdec"}
  \/ th[t].pc = "status" /\ th'[t].pc = "reacq"
  \/ th[t].pc = "created" /\ th'[t].pc = "inc"

\* C22: no thread releases pth_shd while it does not own it, and no thread
\* acquires it while it owns it already: for each thread releases and
\* acquisitions alternate on every path through the public functions.
C22_GateAlternates ==
  [][\A t \in Threads :
       /\ PassesEnter(t) => gate.owner = t
       /\ PassesLeave(t) => gate.owner # t]_vars

(* ------------------------------------------------------------------ *)
(* The gated wait specification: the main thread builds a ring of       *)
(* HANDLE events and calls pth_wait on it, step by step with its        *)
(* enter_pth and leave_pth; another thread sets the handle.             *)
(* ------------------------------------------------------------------ *)
\* pth_wait (e) up to do_pth_wait: enter_pth.
PthWaitCall(e) ==
  /\ io.pc = "idle"
  /\ w_pc = "idle"
  /\ gate.owner = MainThread
  /\ gate' = enter_pth(gate, MainThread, "ignored")
  /\ io' = [NoIo EXCEPT !.fn = "pth_wait", !.ev = e, !.pc = "wait",
                        !.pre = [ring |-> IF e = NULL THEN {} ELSE RingOf(ev, e),
                                 dom |-> DOMAIN ev, objects |-> objects,
                                 timers |-> DOMAIN timers, gate |-> gate]]
  /\ op' = [name |-> "io", arg |-> <<"pth_wait">>]
  /\ NoWaitFrame
  /\ UNCHANGED <<ev, hostVars, ret>>
  /\ IoRest

GwCall == \E e \in DOMAIN ev \cup {NULL} : PthWaitCall(e)

GwSetEvent ==
  /\ HostSetEvent(RawHandle(1))
  /\ Quiet

GwNext ==
  \/ IoEvent \/ IoRing \/ IoFreeRing
  \/ GwCall \/ IoWait \/ IoWaited \/ IoReturn
  \/ GwSetEvent

SpecGatedWait == Init /\ [][GwNext]_vars

(* ------------------------------------------------------------------ *)
(* C23: who changes the status of an event.                             *)
(* ------------------------------------------------------------------ *)
\* The step changes the status or an output field (the signal number, the
\* fd_sets and the ready count) of an event that exists before and after.
ChangesOutput ==
  \E n \in DOMAIN ev \cap DOMAIN ev' :
    \/ ev'[n].status # ev[n].status
    \/ ev'[n].signo # ev[n].signo
    \/ ev'[n].sel # ev[n].sel

\* C23: every change of the status or of an output field of an event is
\* made inside do_pth_wait, by a thread that owns pth_shd at that moment.
C23_ChangedUnderGate ==
  [][ChangesOutput => (io.pc \in {"wait", "blocked"} /\ gate.owner = MainThread)]_vars

(* ------------------------------------------------------------------ *)
(* pth_spawn, do_pth_spawn and launch_thread statement by statement.    *)
(* ------------------------------------------------------------------ *)
\* The thread CreateThread would make next.
NextUnborn ==
  LET unborn == {u \in Threads : th[u].pc = "unborn"}
  IN CHOOSE v \in unborn : \A w \in unborn : v <= w

\* pth_spawn (hd, func, arg) by t up to do_pth_spawn: with hd NULL it
\* returns NULL before enter_pth, otherwise it passes enter_pth.
PthSpawnCall(t, attr) ==
  /\ th[t].pc = "user"
  /\ IF attr = "none"
     THEN /\ th' = [th EXCEPT ![t].ok = NULL]
          /\ op' = [name |-> "spawned", arg |-> <<t, NULL>>]
          /\ UNCHANGED gate
     ELSE /\ \E outcome \in LeaveOutcomes : gate' = enter_pth(gate, t, outcome)
          /\ th' = [th EXCEPT ![t].pc = "spawn", ![t].fn = "pth_spawn",
                              ![t].ok = NULL, ![t].attr = attr]
          /\ op' = [name |-> "spawn", arg |-> <<t, attr>>]
  /\ UNCHANGED <<thread_counter, mutex, hist>>

\* CreateThread without CREATE_SUSPENDED: the thread may run at once.
CreatedThread_Running(attr) ==
  [NoThread EXCEPT !.pc = "created", !.hd_open = TRUE,
                   !.ctx = [state |-> "live", th |-> NULL,
                            joinable |-> (attr = "joinable")]]

\* The thread CreateThread (.., CREATE_SUSPENDED, ..) makes.
CreatedThread(attr) ==
  [NoThread EXCEPT !.pc = "suspended", !.hd_open = TRUE,
                   !.ctx = [state |-> "live", th |-> NULL,
                            joinable |-> (attr = "joinable")]]

\* do_pth_spawn up to CreateThread: _pth_calloc of the context and
\* CreateThread; host tells which of them the host refuses.  When
\* CreateThread fails the NULL is stored and the context is freed.
DoSpawnCreate(t, host) ==
  /\ th[t].pc = "spawn"
  /\ \E u \in Threads : th[u].pc = "unborn"
  /\ LET u == NextUnborn
     IN th' = IF host = "calloc"
              THEN [th EXCEPT ![t].pc = "reacq", ![t].ok = NULL]
              ELSE IF host = "thread"
              THEN [th EXCEPT ![t].pc = "reacq", ![t].ok = NULL,
                              ![u].ctx = [state |-> "freed", th |-> NULL,
                                          joinable |-> (th[t].attr = "joinable")]]
              ELSE [th EXCEPT ![t].pc = "spawn_store", ![t].arg = u,
                              ![u] = CreatedThread(th[t].attr)]
  /\ op' = [name |-> "create", arg |-> <<t, host>>]
  /\ UNCHANGED <<gate, thread_counter, mutex, hist>>

\* ctx->th = th.
DoSpawnStore(t) ==
  /\ th[t].pc = "spawn_store"
  /\ th' = [th EXCEPT ![t].pc = "spawn_resume",
                      ![th[t].arg].ctx.th = th[t].arg]
  /\ op' = [name |-> "store", arg |-> <<t>>]
  /\ UNCHANGED <<gate, thread_counter, mutex, hist>>

\* ResumeThread (th) and return th.
DoSpawnResume(t) ==
  /\ th[t].pc = "spawn_resume"
  /\ LET u == th[t].arg
     IN th' = [th EXCEPT ![t].pc = "reacq", ![t].ok = u,
                         ![u].pc = IF @ = "suspended" THEN "created" ELSE @]
  /\ op' = [name |-> "resume", arg |-> <<t>>]
  /\ UNCHANGED <<gate, thread_counter, mutex, hist>>

\* The leave_pth of pth_spawn and its return.
PthSpawnReturn(t) ==
  /\ th[t].fn = "pth_spawn"
  /\ ThreadReturn(t)
  /\ op' = [name |-> "spawned", arg |-> <<t, th[t].ok>>]

\* launch_thread: leave_pth and the load of thread_counter++.
LaunchEnter(t) ==
  /\ ThreadLaunch(t)
  /\ op' = [name |-> "launch", arg |-> <<t>>]

\* launch_thread: the store of thread_counter++ and the call c->thread
\* (c->arg).
LaunchCall(t) ==
  /\ ThreadStart(t)
  /\ op' = [name |-> "thread", arg |-> <<t>>]

\* launch_thread with the CloseHandle made whatever c->joinable is.
LaunchClose_Always(t) ==
  /\ t # MainThread
  /\ th[t].pc = "user"
  /\ th' = [th EXCEPT ![t].pc = "closed",
                      ![t].hd_open = IF th[t].ctx.th # NULL THEN FALSE ELSE @,
                      ![t].ctx.th = NULL]
  /\ op' = [name |-> "close", arg |-> <<t>>]
  /\ UNCHANGED <<gate, thread_counter, mutex, hist>>

\* launch_thread: the thread function has returned;
\* if (!c->joinable && c->th) { CloseHandle (c->th); c->th = NULL; }.
LaunchClose(t) ==
  /\ t # MainThread
  /\ th[t].pc = "user"
  /\ th' = IF ~th[t].ctx.joinable /\ th[t].ctx.th # NULL
           THEN [th EXCEPT ![t].pc = "closed", ![t].hd_open = FALSE,
                           ![t].ctx.th = NULL]
           ELSE [th EXCEPT ![t].pc = "closed"]
  /\ op' = [name |-> "close", arg |-> <<t>>]
  /\ UNCHANGED <<gate, thread_counter, mutex, hist>>

\* launch_thread: the load of thread_counter--.
LaunchLoad(t) ==
  /\ th[t].pc = "closed"
  /\ th' = [th EXCEPT ![t].pc = "dec", ![t].reg = thread_counter]
  /\ op' = [name |-> "load", arg |-> <<t>>]
  /\ UNCHANGED <<gate, thread_counter, mutex, hist>>

\* launch_thread: the store of thread_counter-- and enter_pth.
LaunchLeave(t) ==
  /\ th[t].pc = "dec"
  /\ thread_counter' = th[t].reg - 1
  /\ \E outcome \in LeaveOutcomes : gate' = enter_pth(gate, t, outcome)
  /\ th' = [th EXCEPT ![t].pc = "free", ![t].reg = 0]
  /\ op' = [name |-> "leave", arg |-> <<t>>]
  /\ UNCHANGED <<mutex, hist>>

\* launch_thread: _pth_free (c) and ExitThread (0).
LaunchFree(t) ==
  /\ th[t].pc = "free"
  /\ th' = [th EXCEPT ![t].pc = "dead", ![t].fn = "none", ![t].ctx.state = "freed"]
  /\ mutex' = MutexAbandon(mutex, t)
  /\ op' = [name |-> "exit", arg |-> <<t>>]
  /\ UNCHANGED <<gate, thread_counter, hist>>

(* ------------------------------------------------------------------ *)
(* The spawn specification: the main thread and the threads it spawns   *)
(* call pth_spawn with and without attributes, for joinable and other   *)
(* threads, on a host that may refuse the context or the thread; the    *)
(* thread functions return.                                             *)
(* ------------------------------------------------------------------ *)
SpawnAttrs == {"none", "joinable", "detached"}
SpawnHosts == {"none", "calloc", "thread"}

\* What the steps of the spawn specification leave alone.
SpRest == UNCHANGED <<ev, hostVars, waitVars, ret, io>>

SpCall == (\E t \in Threads : \E attr \in SpawnAttrs : PthSpawnCall(t, attr)) /\ SpRest
SpCreate == (\E t \in Threads : \E host \in SpawnHosts : DoSpawnCreate(t, host)) /\ SpRest
SpStore == (\E t \in Threads : DoSpawnStore(t)) /\ SpRest
SpResume == (\E t \in Threads : DoSpawnResume(t)) /\ SpRest
SpReturn == (\E t \in Threads : PthSpawnReturn(t)) /\ SpRest
SpEnter == (\E t \in Threads : LaunchEnter(t)) /\ SpRest
SpThread == (\E t \in Threads : LaunchCall(t)) /\ SpRest
SpClose == (\E t \in Threads : LaunchClose(t)) /\ SpRest
SpLoad == (\E t \in Threads : LaunchLoad(t)) /\ SpRest
SpLeave == (\E t \in Threads : LaunchLeave(t)) /\ SpRest
SpFree == (\E t \in Threads : LaunchFree(t)) /\ SpRest

SpNext ==
  \/ SpCall \/ SpCreate \/ SpStore \/ SpResume \/ SpReturn
  \/ SpEnter \/ SpThread \/ SpClose \/ SpLoad \/ SpLeave \/ SpFree

SpecSpawn == Init /\ [][SpNext]_vars

(* ------------------------------------------------------------------ *)
(* C25: pth_spawn.                                                      *)
(* ------------------------------------------------------------------ *)
\* The spawned threads that have been resumed and have not yet returned
\* from their thread function.
Running == {u \in Threads \ {MainThread} : th[u].pc \in {"created", "inc", "user"}}

\* What holds in every state: a thread that runs finds its handle in its
\* context; a thread is suspended only while its creator stands between
\* CreateThread and ResumeThread; a live context belongs to a thread that
\* was created and has not ended; pth_spawn has returned the handle of a
\* thread it started, or NULL; a thread in application code owns pth_shd
\* once.
SpawnState ==
  /\ \A u \in Running : th[u].ctx.state = "live" /\ th[u].ctx.th = u
  /\ \A u \in Threads :
       th[u].pc = "suspended" =>
         \E t \in Threads : th[t].pc \in {"spawn_store", "spawn_resume"} /\ th[t].arg = u
  /\ \A u \in Threads :
       th[u].ctx.state = "live" => th[u].pc \notin {"unborn", "dead"}
  /\ op.name = "spawned" =>
       \/ op.arg[2] = NULL
       \/ th[op.arg[2]].pc \notin {"unborn", "suspended"}
  /\ \A t \in Threads :
       th[t].pc = "user" => gate = [owner |-> t, count |-> 1]

\* What holds of every step: a do_pth_spawn that fails starts no thread,
\* leaves no context and returns NULL; a pth_spawn without attributes
\* changes nothing and returns NULL; a do_pth_spawn that succeeds returns
\* the handle of the thread it resumed.
SpawnStep ==
  /\ (op'.name = "create" /\ op'.arg[2] # "none") =>
       /\ \A u \in Threads \ {op'.arg[1]} : th'[u].pc = th[u].pc
       /\ \A u \in Threads : th'[u].ctx.state # "live" \/ th[u].ctx.state = "live"
       /\ th'[op'.arg[1]].ok = NULL /\ th'[op'.arg[1]].pc = "reacq"
  /\ (op'.name = "spawned" /\ th[op'.arg[1]].pc = "user") =>
       /\ op'.arg[2] = NULL
       /\ \A u \in Threads : th'[u].pc = th[u].pc /\ th'[u].ctx = th[u].ctx
       /\ gate' = gate
  /\ op'.name = "resume" =>
       LET t == op'.arg[1]
       IN /\ th'[t].ok = th[t].arg
          /\ th[th[t].arg].pc = "suspended"
          /\ th'[th[t].arg].pc = "created"
          /\ th[th[t].arg].ctx.th = th[t].arg

\* C25: pth_spawn stores the handle of the new thread in its context before
\* the thread runs any statement of launch_thread (the thread is created
\* suspended and resumed after the store) and returns that handle; when the
\* context or the thread cannot be made, or without attributes, it returns
\* NULL with no context left and no thread started; in every case the
\* caller owns pth_shd when pth_spawn has returned.
C25_Spawn == [](SpawnState) /\ [][SpawnStep]_vars

\* pth_spawn has returned NULL because CreateThread failed: the context it
\* had allocated is freed and the thread does not exist, while a thread
\* spawned before runs its thread function.
C25_Witness ==
  /\ op.name = "spawned" /\ op.arg[2] = NULL
  /\ th[op.arg[1]].attr # "none"
  /\ \E u \in Threads : th[u].pc = "unborn" /\ th[u].ctx.state = "freed"
  /\ \E u \in Threads \ {MainThread} : th[u].pc \in {"inc", "closed", "dec", "free"}

(* ------------------------------------------------------------------ *)
(* C24: the order of the statements of launch_thread.                   *)
(* ------------------------------------------------------------------ *)
\* C24 as stated: the thread function of a spawned thread runs while the
\* thread does not hold the gate, the handle is closed after the counter
\* was decremented, and the context is freed while the thread holds the
\* gate.
C24_AsStated ==
  \A t \in Threads \ {MainThread} :
    /\ th[t].pc = "user" => gate.owner # t
    /\ th[t].pc = "closed" => thread_counter = 1
    /\ th[t].pc = "free" => gate.owner = t

\* The positions of launch_thread in the order of its statements.
LaunchOrder == <<"created", "inc", "user", "closed", "dec", "free", "dead">>

\* Position q follows position p in launch_thread (a thread function that
\* calls pth_spawn leaves "user" and comes back to it).
LaunchFollows(p, q) ==
  \E i \in 1..(Len(LaunchOrder) - 1) : LaunchOrder[i] = p /\ LaunchOrder[i + 1] = q

\* C24: the body of a spawned thread acquires the gate (leave_pth),
\* increments the thread counter, calls the thread function, closes its own
\* handle if the thread is not joinable, decrements the counter, releases
\* the gate (enter_pth), frees the context and ends, in this order.
C24_LaunchOrder ==
  [][\A t \in Threads \ {MainThread} :
       (th[t].pc \in SetOf(LaunchOrder) /\ th'[t].pc \in SetOf(LaunchOrder)
        /\ th'[t].pc # th[t].pc) =>
         /\ LaunchFollows(th[t].pc, th'[t].pc)
         /\ th[t].pc = "created" =>
              /\ gate.owner # t /\ gate'.owner = t
              /\ thread_counter' = thread_counter
         /\ th[t].pc = "inc" =>
              /\ thread_counter' = th[t].reg + 1
              /\ gate' = gate
         /\ th[t].pc = "user" =>
              /\ th'[t].hd_open = (th[t].hd_open /\ th[t].ctx.joinable)
              /\ thread_counter' = thread_counter /\ gate' = gate
         /\ th[t].pc = "closed" =>
              /\ thread_counter' = thread_counter /\ gate' = gate
              /\ th'[t].hd_open = th[t].hd_open
         /\ th[t].pc = "dec" =>
              /\ thread_counter' = th[t].reg - 1
              /\ gate.owner = t => gate' = LeaveOwned(gate)
              /\ th'[t].ctx.state = "live"
         /\ th[t].pc = "free" =>
              /\ th[t].ctx.state = "live" /\ th'[t].ctx.state = "freed"
              /\ thread_counter' = thread_counter /\ gate' = gate]_vars

\* A thread that is not joinable has closed its handle after its thread
\* function returned: it is still counted, owns the gate and has its
\* context.
C24_Witness ==
  \E t \in Threads \ {MainThread} :
    /\ th[t].pc = "closed"
    /\ ~th[t].ctx.joinable /\ ~th[t].hd_open
    /\ gate.owner = t
    /\ thread_counter = 2
    /\ th[t].ctx.state = "live"

(* ------------------------------------------------------------------ *)
(* C26: what a wait leaves of the resources it set up.                  *)
(* ------------------------------------------------------------------ *)
\* No event object is registered for network events on descriptor fd.
Unregistered(fd) == fd \in Sockets => net[fd].hd = NullHandle /\ net[fd].mask = {}

\* The descriptors in the fd_sets of a SELECT event.
SelectFds(sel) == SetOf(sel.rfds) \cup SetOf(sel.wfds) \cup SetOf(sel.efds)

\* The socket readiness objects of the FD events of the ring are closed and
\* the registrations of their descriptors are cleared.
FdReleased ==
  \A n \in RingOf(ev, w_ev) :
    (ev[n].u_type = "FD" /\ fd_is_socket(ev[n].fd)) =>
      SockEvent(n) \notin objects /\ Unregistered(ev[n].fd)

\* The registrations of the descriptors of the SELECT events of the ring
\* are cleared.
SelectReleased ==
  \A n \in RingOf(ev, w_ev) :
    ev[n].u_type = "SELECT" =>
      \A fd \in SelectFds(w_pre.ev[n].sel) : Unregistered(fd)

\* C26: when a wait has returned, whatever it returns and whichever events
\* fired, every socket readiness object made for an FD event is closed and
\* the network registration of every descriptor of an FD or SELECT event is
\* cleared.
C26_Released ==
  (op.name = "waited" /\ w_ev # NULL) => (FdReleased /\ SelectReleased)

\* The part about FD events alone.
FdPartReleased == (op.name = "waited" /\ w_ev # NULL) => FdReleased

(* ------------------------------------------------------------------ *)
(* C27: which objects a wait resets.                                    *)
(* ------------------------------------------------------------------ *)
\* The kinds whose object the second loop of do_pth_wait resets.
ResetKinds == {"SIGS", "SELECT", "HANDLE"}

Unsupported(E, n) ==
  \/ E[n].u_type = "MUTEX"
  \/ E[n].u_type = "FD" /\ E[n].fd \notin Sockets \cup PipeFds

\* The events of the ring the wait can wait for.
Supported(E, n) == E[n].u_type \in {"SIGS", "HANDLE", "TIME", "SELECT", "FD"} /\ ~Unsupported(E, n)

\* C28: a MUTEX event and an FD event whose descriptor matches no waitable
\* resource get no slot in the wait set and are PENDING after the wait, while
\* every other event of the ring gets its slot; the wait blocks on those and
\* returns the number of them it marked: it returns at least 1 when the
\* object of a HANDLE or SIGS event of the ring was signaled.
C28_Skipped ==
  (w_ev # NULL /\ (w_pc = "blocked" \/ Waited)) =>
    /\ \A n \in RingOf(ev, w_ev) :
         /\ Unsupported(ev, n) =>
              n \notin SetOf(evarray) /\ ev[n].status = PTH_STATUS_PENDING
         /\ Supported(ev, n) => n \in SetOf(evarray)
    /\ (Waited /\ \E n \in RingOf(ev, w_ev) : Unsupported(ev, n)) =>
         /\ ret \in {-1} \cup 1..Cardinality(RingOf(ev, w_ev))
         /\ ret >= 1 => ret = Cardinality(Occurred)
         /\ (\E n \in RingOf(ev, w_ev) :
               /\ ev[n].u_type \in {"HANDLE", "SIGS"}
               /\ NativeObject(ev, n) \in w_pre.signaled \cup w_env) => ret >= 1
         /\ ret = -1 => (Occurred = {} /\ w_n = "WAIT_FAILED")

\* A wait on a ring of an FD event on a plain file and a HANDLE event has
\* returned 1 after the handle was set during the wait: the HANDLE event is
\* OCCURRED and the FD event is PENDING.
C28_Witness ==
  /\ Waited
  /\ ret = 1
  /\ \E n \in RingOf(ev, w_ev) :
       ev[n].u_type = "FD" /\ ev[n].fd \in FileFds /\ ev[n].status = PTH_STATUS_PENDING
  /\ \E n \in RingOf(ev, w_ev) :
       /\ ev[n].u_type = "HANDLE" /\ ev[n].status = PTH_STATUS_OCCURRED
       /\ ev[n].hd \in w_env

(* ------------------------------------------------------------------ *)
(* C29: pth_read_ev and pth_write_ev with an extra event.               *)
(* ------------------------------------------------------------------ *)
\* The network conditions the FD event of the function waits for.
IoConds(fn) == IF fn = "pth_read_ev" THEN NetRead ELSE NetWrite

\* What holds when function fn, called with an extra event, has returned
\* after its wait: it made the read or write exactly if it found its FD
\* event OCCURRED, which is exactly if the descriptor was ready; if not, it
\* returns -1 with errno EINTR.
ReturnedAfterWait(fn) ==
  io.pc = "idle" /\ io.fn = fn /\ io.extra # NULL /\ io.waited

InterruptContract(fn) ==
  ReturnedAfterWait(fn) =>
    /\ io.done = io.fired
    /\ io.fired = (ready[IoFd] \cap IoConds(fn) # {})
    /\ ~io.fired => (io.rv = -1 /\ io.errno = "EINTR")

\* pth_read_ev alone, with the ownership of pth_shd at the return.
ReadEvContract ==
  /\ InterruptContract("pth_read_ev")
  /\ ReturnedAfterWait("pth_read_ev") => gate = io.pre.gate

\* pth_write_ev alone, without the ownership of pth_shd.
WriteEvInterrupt == InterruptContract("pth_write_ev")

\* C29: pth_read_ev and pth_write_ev called with an extra event make the
\* read or write only if their FD event is OCCURRED after the wait; when
\* only the extra event fired they make no I/O and return -1 with errno
\* EINTR; at the return the caller holds pth_shd as it held it at the call.
C29_Interrupted ==
  \A fn \in {"pth_read_ev", "pth_write_ev"} :
    /\ InterruptContract(fn)
    /\ ReturnedAfterWait(fn) => gate = io.pre.gate

(* ------------------------------------------------------------------ *)
(* C30: one thread at a time in application code.                       *)
(* ------------------------------------------------------------------ *)
\* The threads running application code: the main thread between its
\* calls, a spawned thread inside its thread function between its calls.
InUserCode == {t \in Threads : th[t].pc = "user"}

\* The threads inside a public function, between its enter_pth and the
\* return of its last leave_pth.
InLibrary ==
  {t \in Threads : th[t].pc \in {"book", "blocked", "after", "status", "reacq", "kill"}}

\* No two threads are in application code.
AtMostOneInUserCode == Cardinality(InUserCode) <= 1

\* A thread in application code owns pth_shd, a thread inside a public
\* function does not, and no two threads are in application code.
GateDiscipline ==
  /\ \A t \in InUserCode : gate.owner = t
  /\ \A t \in InLibrary : gate.owner # t
  /\ AtMostOneInUserCode

\* C30: at most one thread at a time runs application code: the thread
\* function of a spawned thread starts only after launch_thread has acquired
\* the gate, a thread holds the gate exactly while it is outside a gated
\* public function, and no two threads are in application code at once.
C30_OneInUserCode ==
  [](GateDiscipline)
  /\ [][\A t \in Threads :
          (th[t].pc = "inc" /\ th'[t].pc = "user") => gate.owner = t]_vars

(* ------------------------------------------------------------------ *)
(* The termination specification: the main thread spawns threads and    *)
(* passes their handles to pth_cancel and pth_abort, each once; the     *)
(* spawned threads run their thread function and end.  Every thread     *)
(* that can take a step of the library or end its thread function does  *)
(* so eventually, and a thread that finds pth_shd free again and again  *)
(* gets it eventually.                                                  *)
(* ------------------------------------------------------------------ *)
TmSpawn ==
  /\ \E u \in Threads : th[u].pc = "unborn"
  /\ ThreadCall(MainThread, "pth_spawn")
  /\ NoEvents

TmCancel ==
  /\ \E f \in CancelFns : \E u \in Threads : ThreadCancel(MainThread, f, u)
  /\ NoEvents

TmNext ==
  \/ TmSpawn \/ TmCancel \/ CnKill \/ CnDec
  \/ GateBook \/ GateReturn \/ GateLaunch \/ GateStart \/ GateFinish \/ GateExit

\* The steps thread t takes without a decision of the application.
ThreadProgress(t) ==
  /\ \/ ThreadBook(t) \/ ThreadKill(t) \/ ThreadCancelDec(t) \/ ThreadReturn(t)
     \/ ThreadLaunch(t) \/ ThreadStart(t) \/ ThreadFinish(t) \/ ThreadExit(t)
  /\ NoEvents

TmFairness == \A t \in Threads : SF_vars(ThreadProgress(t))

SpecTerminate == Init /\ [][TmNext]_vars /\ TmFairness

(* ------------------------------------------------------------------ *)
(* C31: pth_cancel and pth_abort return.                                *)
(* ------------------------------------------------------------------ *)
\* The main thread is inside pth_cancel or pth_abort.
InCancel == th[MainThread].fn \in CancelFns /\ th[MainThread].pc # "user"

\* The main thread runs application code and owns pth_shd.
BackInUserCode == th[MainThread].pc = "user" /\ gate.owner = MainThread

\* C31: every call of pth_cancel or pth_abort on a spawned thread returns
\* eventually, and the caller holds the gate again, whatever the target was
\* doing when TerminateThread ended it.
C31_CancelReturns == InCancel ~> BackInUserCode

\* The target of the call of the main thread is ended, the main thread is
\* at its leave_pth, and the thread that owns pth_shd is dead.
GateLeftByDead ==
  /\ InCancel /\ th[MainThread].pc = "reacq"
  /\ gate.owner # NoOwner /\ th[gate.owner].pc = "dead"

\* No thread that has ended owns pth_shd.
NoDeadOwner == gate.owner = NoOwner \/ th[gate.owner].pc # "dead"

(* ------------------------------------------------------------------ *)
(* The abandon specification: the main thread spawns threads and ends   *)
(* them with pth_cancel and pth_abort while all threads acquire and     *)
(* release one mutex.                                                   *)
(* ------------------------------------------------------------------ *)
AbMutex ==
  /\ \E t \in Threads : \E f \in {"pth_mutex_acquire", "pth_mutex_release"} :
       /\ f = "pth_mutex_acquire" => mutex.count < MaxMutexCount \/ mutex.owner # t
       /\ ThreadCall(t, f)
  /\ NoEvents

AbNext ==
  \/ TmSpawn \/ TmCancel \/ CnKill \/ CnDec \/ AbMutex
  \/ GateBook \/ GateUnblock \/ GateReturn
  \/ GateLaunch \/ GateStart \/ GateFinish \/ GateExit

SpecAbandon == Init /\ [][AbNext]_vars

(* ------------------------------------------------------------------ *)
(* C32: the result of pth_mutex_acquire and the ownership of the mutex. *)
(* ------------------------------------------------------------------ *)
\* The threads whose WaitForSingleObject in pth_mutex_acquire has returned
\* and that have rc to return.
AcquireReturning ==
  {t \in Threads : th[t].fn = "pth_mutex_acquire" /\ th[t].pc = "reacq"}

\* C32: pth_mutex_acquire reports success exactly when the calling thread
\* owns the native mutex at the return, also when the thread that owned the
\* mutex before was ended while it held it.
C32_SuccessIffOwner ==
  \A t \in AcquireReturning : (th[t].ok = 1) <=> (mutex.owner = t)

\* A thread is about to be returned FALSE and owns the mutex, which it got
\* from a thread that TerminateThread ended.
OwnerWithFailure ==
  \E t \in AcquireReturning :
    /\ th[t].ok = 0 /\ mutex.owner = t
    /\ hist.cancelled # {}

\* pth_mutex_acquire reports success only to a thread that owns the mutex.
SuccessOnlyToOwner ==
  \A t \in AcquireReturning : th[t].ok = 1 => mutex.owner = t

(* ------------------------------------------------------------------ *)
(* The shutdown specification: the main thread and the threads it       *)
(* spawns call pth_spawn and pth_event, shut the library down with      *)
(* pth_kill, call public functions again, call pth_exit, and end.       *)
(* ------------------------------------------------------------------ *)
\* pth_shd after DeleteCriticalSection; pth_initialized is 0 exactly while
\* pth_shd is in this state (host failures of pth_init apart).
Deleted == -1
DeletedSection == [owner |-> Deleted, count |-> 0]

\* pth_kill: DeleteCriticalSection (&pth_shd) and pth_initialized = 0,
\* when pth_initialized is set.
pth_kill(G) == DeletedSection

\* implicit_init by t: pth_init when pth_initialized is 0, which makes
\* pth_shd anew and enters it; nothing otherwise.
implicit_init(G, t) ==
  IF G = DeletedSection THEN [owner |-> t, count |-> 1] ELSE G

\* EnterCriticalSection and LeaveCriticalSection on a deleted section are
\* undefined: the call returns, having done nothing that is of use, or
\* it never returns.
DeletedOutcomes == {"returns", "hangs"}

\* The functions called in the shutdown specification.
ShutdownFns == {"pth_spawn", "pth_event"}

\* exit (): the process ends with all its threads.
ProcessExit(T) ==
  [x \in Threads |-> IF T[x].pc = "unborn" THEN T[x]
                     ELSE [T[x] EXCEPT !.pc = "dead", !.fn = "none", !.reg = 0]]

\* Thread t calls the public function f: implicit_init and enter_pth.
XtCall(t, f) ==
  /\ th[t].pc = "user"
  /\ f = "pth_spawn" => \E u \in Threads : th[u].pc = "unborn"
  /\ \E outcome \in LeaveOutcomes :
       gate' = enter_pth(implicit_init(gate, t), t, outcome)
  /\ thread_counter' = IF gate = DeletedSection THEN 1 ELSE thread_counter
  /\ th' = [th EXCEPT ![t].fn = f, ![t].ok = 0, ![t].pc = "book"]
  /\ UNCHANGED <<mutex, hist>>

\* Thread t calls pth_kill, which has no enter_pth and no leave_pth.
XtKill(t) ==
  /\ th[t].pc = "user"
  /\ gate # DeletedSection
  /\ gate' = pth_kill(gate)
  /\ UNCHANGED <<th, thread_counter, mutex, hist>>

\* Thread t calls pth_exit: implicit_init and enter_pth.
XtExit(t) ==
  /\ th[t].pc = "user"
  /\ \E outcome \in LeaveOutcomes :
       gate' = enter_pth(implicit_init(gate, t), t, outcome)
  /\ thread_counter' = IF gate = DeletedSection THEN 1 ELSE thread_counter
  /\ th' = [th EXCEPT ![t].fn = "pth_exit", ![t].pc = "xkill"]
  /\ UNCHANGED <<mutex, hist>>

\* The pth_kill of pth_exit.
XtExitKill(t) ==
  /\ th[t].pc = "xkill"
  /\ gate' = IF gate = DeletedSection THEN gate ELSE pth_kill(gate)
  /\ th' = [th EXCEPT ![t].pc = "xleave"]
  /\ UNCHANGED <<thread_counter, mutex, hist>>

\* The leave_pth of pth_exit and exit ().
XtExitLeave(t, o) ==
  /\ th[t].pc = "xleave"
  /\ IF gate = DeletedSection
     THEN /\ th' = IF o = "returns" THEN ProcessExit(th)
                   ELSE [th EXCEPT ![t].pc = "hung"]
          /\ UNCHANGED gate
     ELSE /\ o = "returns"
          /\ CanEnter(gate, t)
          /\ gate' = leave_pth(gate, t)
          /\ th' = ProcessExit(th)
  /\ UNCHANGED <<thread_counter, mutex, hist>>

\* The leave_pth that ends t's call of pth_spawn or pth_event.
XtReturn(t, o) ==
  /\ th[t].pc = "reacq"
  /\ IF gate = DeletedSection
     THEN /\ th' = IF o = "returns"
                   THEN [th EXCEPT ![t].pc = "user", ![t].fn = "none"]
                   ELSE [th EXCEPT ![t].pc = "hung"]
          /\ UNCHANGED gate
     ELSE /\ o = "returns"
          /\ CanEnter(gate, t)
          /\ gate' = leave_pth(gate, t)
          /\ th' = [th EXCEPT ![t].pc = "user", ![t].fn = "none"]
  /\ UNCHANGED <<thread_counter, mutex, hist>>

\* The leave_pth of launch_thread and the load of thread_counter++.
XtLaunch(t, o) ==
  /\ th[t].pc = "created"
  /\ IF gate = DeletedSection
     THEN /\ th' = IF o = "returns"
                   THEN [th EXCEPT ![t].pc = "inc", ![t].reg = thread_counter]
                   ELSE [th EXCEPT ![t].pc = "hung"]
          /\ UNCHANGED gate
     ELSE /\ o = "returns"
          /\ CanEnter(gate, t)
          /\ gate' = leave_pth(gate, t)
          /\ th' = [th EXCEPT ![t].pc = "inc", ![t].reg = thread_counter]
  /\ UNCHANGED <<thread_counter, mutex, hist>>

\* The store of thread_counter--, the enter_pth of launch_thread and
\* ExitThread.
XtThreadEnd(t, o) ==
  /\ th[t].pc = "dec"
  /\ thread_counter' = th[t].reg - 1
  /\ IF gate = DeletedSection
     THEN /\ th' = IF o = "returns"
                   THEN [th EXCEPT ![t].pc = "dead", ![t].fn = "none", ![t].reg = 0]
                   ELSE [th EXCEPT ![t].pc = "hung"]
          /\ UNCHANGED gate
     ELSE /\ o = "returns"
          /\ \E outcome \in LeaveOutcomes : gate' = enter_pth(gate, t, outcome)
          /\ th' = [th EXCEPT ![t].pc = "dead", ![t].fn = "none", ![t].reg = 0]
  /\ UNCHANGED <<mutex, hist>>

XtCalls ==
  /\ \E t \in Threads : \E f \in ShutdownFns : XtCall(t, f)
  /\ NoEvents

XtKills ==
  /\ \E t \in Threads : XtKill(t)
  /\ NoEvents

XtExits ==
  /\ \E t \in Threads : XtExit(t)
  /\ NoEvents

XtExitKills ==
  /\ \E t \in Threads : XtExitKill(t)
  /\ NoEvents

XtExitLeaves ==
  /\ \E t \in Threads : \E o \in DeletedOutcomes : XtExitLeave(t, o)
  /\ NoEvents

XtReturns ==
  /\ \E t \in Threads : \E o \in DeletedOutcomes : XtReturn(t, o)
  /\ NoEvents

XtLaunches ==
  /\ \E t \in Threads : \E o \in DeletedOutcomes : XtLaunch(t, o)
  /\ NoEvents

XtThreadEnds ==
  /\ \E t \in Threads : \E o \in DeletedOutcomes : XtThreadEnd(t, o)
  /\ NoEvents

XtNext ==
  \/ XtCalls \/ XtKills \/ XtExits \/ XtExitKills \/ XtExitLeaves
  \/ XtReturns \/ XtLaunches \/ XtThreadEnds
  \/ GateBook \/ GateStart \/ GateFinish

SpecShutdown == Init /\ [][XtNext]_vars

(* ------------------------------------------------------------------ *)
(* C33: no use of the gate between its destruction and the next         *)
(* initialization.                                                      *)
(* ------------------------------------------------------------------ *)
\* Thread t makes a step in which it calls EnterCriticalSection or
\* LeaveCriticalSection on pth_shd as the step finds it: the leave_pth of
\* pth_exit, of another public function and of launch_thread, and the
\* enter_pth at the end of launch_thread.  (The enter_pth at the start of
\* a public function comes after its implicit_init.)
UsesGate(t) ==
  \/ th[t].pc = "xleave" /\ th'[t].pc # "xleave"
  \/ th[t].pc = "reacq" /\ th'[t].pc \in {"user", "hung"}
  \/ th[t].pc = "created" /\ th'[t].pc \in {"inc", "hung"}
  \/ th[t].pc = "dec" /\ th'[t].pc \in {"dead", "hung"} /\ thread_counter' # thread_counter

\* C33: pth_shd is never acquired or released after pth_kill has deleted
\* it and before pth_init has made it again; pth_exit, which calls pth_kill
\* between its enter_pth and its leave_pth, makes no gate operation after
\* the pth_kill.
C33_NoUseAfterShutdown ==
  [][\A t \in Threads : UsesGate(t) => gate # DeletedSection]_vars

(* ------------------------------------------------------------------ *)
(* C34: the mode of the descriptor of pth_accept_ev.                    *)
(* ------------------------------------------------------------------ *)
\* pth_accept_ev is at its return or has returned.
AcceptReturns == io.fn = "pth_accept_ev" /\ io.pc \in {"ret", "idle"}

\* C34: on every return path of pth_accept_ev taken after pth_fdmode has
\* made the descriptor non-blocking (accept succeeded, accept failed, the
\* extra event interrupted the wait, the FD event could not be made) the
\* descriptor is in blocking mode again when the call returns.
C34_ModeRestored == AcceptReturns => ~io.nonblock

\* The return paths other than the failure of do_pth_event.
ModeRestoredUnlessRefused == (AcceptReturns /\ ~io.refused) => ~io.nonblock

\* The call has waited and returned, and the descriptor is blocking.
RestoredAfterWait == AcceptReturns /\ io.waited /\ ~io.nonblock /\ io.pc = "idle"

(* ------------------------------------------------------------------ *)
(* C35: the waits of the retry loop of pth_accept_ev.                   *)
(* ------------------------------------------------------------------ *)
\* pth_accept_ev with an extra event is blocked in do_pth_wait.
AcceptBlocked ==
  io.fn = "pth_accept_ev" /\ io.extra # NULL /\ io.pc = "blocked"

\* C35: in pth_accept_ev with an extra event every wait of the retry loop
\* waits on the FD event and on the extra event, so that the extra event
\* ends any of the waits.
C35_EveryWaitHasExtra == AcceptBlocked => io.extra \in RingOf(ev, io.ev)

\* The first wait of the loop is on both events.
FirstWaitHasExtra ==
  (AcceptBlocked /\ ~io.waited) => io.extra \in RingOf(ev, io.ev)

(* ------------------------------------------------------------------ *)
(* C36: what pth_select_ev returns.                                     *)
(* ------------------------------------------------------------------ *)
\* pth_select_ev has computed rc from the statuses of its events and has
\* not freed them yet.
SelectComputed == io.fn = "pth_select_ev" /\ io.pc = "free1" /\ io.sets # << >>

\* The SELECT event, the TIME event of pth_select_ev is OCCURRED.
SelectFired == ev[io.ev].status = PTH_STATUS_OCCURRED
TimeoutFired == io.tmo /\ ev[io.ev_time].status = PTH_STATUS_OCCURRED

\* The fd_sets as the wait left them in the SELECT event.
WaitedSets == <<ev[io.ev].sel.rfds, ev[io.ev].sel.wfds, ev[io.ev].sel.efds>>
EmptySets == << << >>, << >>, << >> >>

\* C36: pth_select_ev returns the ready count, with the fd_sets holding the
\* ready descriptors, whenever its SELECT event is OCCURRED after the wait;
\* it returns 0 with the three fd_sets emptied only when the timeout event
\* fired and the SELECT event did not; it returns -1 with EINTR only when
\* an extra event was given and neither of the two fired.
C36_SelectResult ==
  SelectComputed =>
    /\ SelectFired => (io.rv = ev[io.ev].sel.rc /\ io.sets = WaitedSets)
    /\ (io.rv = 0 /\ io.sets = EmptySets) => (TimeoutFired /\ ~SelectFired)
    /\ (io.rv = -1 /\ io.errno = "EINTR") =>
         (io.extra # NULL /\ ~SelectFired /\ ~TimeoutFired)

\* The same with the timeout taking precedence over the SELECT event.
SelectResultTimeoutFirst ==
  SelectComputed =>
    /\ (SelectFired /\ ~TimeoutFired) =>
         (io.rv = ev[io.ev].sel.rc /\ io.sets = WaitedSets)
    /\ TimeoutFired => (io.rv = 0 /\ io.sets = EmptySets)
    /\ (io.rv = -1 /\ io.errno = "EINTR") =>
         (io.extra # NULL /\ ~SelectFired /\ ~TimeoutFired)
    /\ (io.extra # NULL /\ ~SelectFired /\ ~TimeoutFired) =>
         (io.rv = -1 /\ io.errno = "EINTR")

\* Both events of pth_select_ev are OCCURRED after one wait.
BothFired == SelectComputed /\ SelectFired /\ TimeoutFired

(* ------------------------------------------------------------------ *)
(* C37: two events on one native object.                                *)
(* ------------------------------------------------------------------ *)
\* The pairs of events of the ring of the last wait that are bound to the
\* same object: two SIGS events, two HANDLE events with the same handle.
SharedObject ==
  {p \in RingOf(ev, w_ev) \X RingOf(ev, w_ev) :
     /\ p[1] # p[2]
     /\ ev[p[1]].u_type \in {"SIGS", "HANDLE"}
     /\ ev[p[1]].u_type = ev[p[2]].u_type
     /\ NativeObject(ev, p[1]) = NativeObject(ev, p[2])}

\* The object of event n was signaled when the wait was called or became
\* signaled while it blocked.
ObjectWasSet(n) == NativeObject(ev, n) \in w_pre.signaled \cup w_env

\* C37: when a ring holds two events bound to the same native object (two
\* SIGS events, or two HANDLE events with the same handle) and that object
\* is signaled, the wait marks both OCCURRED and counts both.
C37_BothMarked ==
  Waited =>
    \A p \in SharedObject :
      ObjectWasSet(p[1]) =>
        /\ ev[p[1]].status = PTH_STATUS_OCCURRED
        /\ ev[p[2]].status = PTH_STATUS_OCCURRED
        /\ ret >= 2

\* Of two events on one object whose object was set, the wait marks the
\* one that comes first in the ring and not the other.
OnlyFirstMarked ==
  Waited =>
    \A p \in SharedObject :
      ObjectWasSet(p[1]) =>
        ~(ev[p[1]].status = PTH_STATUS_OCCURRED /\ ev[p[2]].status = PTH_STATUS_OCCURRED)

(* ------------------------------------------------------------------ *)
(* C38: the value of the thread counter.                                *)
(* ------------------------------------------------------------------ *)
\* The spawned threads whose thread function has been entered and that
\* have neither left launch_thread nor been ended by TerminateThread.
BodyEntered ==
  {t \in Threads \ {MainThread} :
     th[t].pc \in {"user", "book", "blocked", "after", "status", "reacq", "kill"}}

\* No thread is between the load of a counter update and the start or the
\* end of the thread the update is made for: no launch_thread is between
\* leave_pth and the thread function or between the thread function and
\* ExitThread, and no pth_cancel or pth_abort is under way.
CounterSettled ==
  \A t \in Threads :
    /\ th[t].pc \notin {"inc", "dec", "cdec"}
    /\ th[t].fn \in CancelFns => th[t].pc = "user"

\* C38: whenever no counter update is under way, the thread counter is 1
\* plus the number of spawned threads whose body has been entered and that
\* have neither exited nor been ended by force; it is never less than 1,
\* also when a thread is aborted before its body incremented the counter
\* or cancelled after it has exited.
C38_CounterValue ==
  /\ CounterSettled => thread_counter = 1 + Cardinality(BodyEntered)
  /\ thread_counter >= 1

\* The counter is below 1 while no update is under way.
CounterBelowOne == CounterSettled /\ thread_counter < 1

(* ------------------------------------------------------------------ *)
(* C39: the probe list, the fd_sets and the ready count of a SELECT     *)
(* event.                                                               *)
(* ------------------------------------------------------------------ *)
\* No descriptor is in the probe list twice.
NoDuplicate(fdarray) ==
  \A i, j \in 1..Len(fdarray) : fdarray[i].fd = fdarray[j].fd => i = j

\* C39: whenever the wait marks a SELECT event OCCURRED, the ready count it
\* writes is the sum of the sizes of the three rewritten fd_sets, each
\* rewritten set is a subset of the set passed at construction, and the
\* probe list build_fdarray makes holds no descriptor twice (a descriptor
\* in several sets is probed once) and at most FD_SETSIZE entries.
C39_SelectInternals ==
  Waited =>
    \A n \in SelectEvents :
      ev[n].status = PTH_STATUS_OCCURRED =>
        LET in == w_pre.ev[n].sel
            out == ev[n].sel
            fdarray == ProbeList(in)
        IN /\ out.rc = Len(out.rfds) + Len(out.wfds) + Len(out.efds)
           /\ SetOf(out.rfds) \subseteq SetOf(SelSet(in, "r"))
           /\ SetOf(out.wfds) \subseteq SetOf(SelSet(in, "w"))
           /\ SetOf(out.efds) \subseteq SetOf(SelSet(in, "e"))
           /\ NoDuplicate(fdarray)
           /\ Len(fdarray) <= FD_SETSIZE

\* The wait has marked the SELECT event over 70 descriptors, of which ten
\* are in two sets and socket 2 in the read and the except set: the probe
\* list is full, socket 2 is reported as readable and with out-of-band data.
C39_Witness ==
  /\ Waited
  /\ \E n \in SelectEvents :
       /\ ev[n].status = PTH_STATUS_OCCURRED
       /\ Len(w_pre.ev[n].sel.rfds) + Len(w_pre.ev[n].sel.wfds) > FD_SETSIZE
       /\ Len(ProbeList(w_pre.ev[n].sel)) = FD_SETSIZE
       /\ ev[n].sel.rfds = <<2>> /\ ev[n].sel.efds = <<2>>
       /\ ev[n].sel.rc = 2

(* ------------------------------------------------------------------ *)
(* The two-select specification: a caller that builds two SELECT events *)
(* naming the same socket and waits on either.                          *)
(* ------------------------------------------------------------------ *)
\* The fd_sets of the two events: read {1} with write {3}, and write {1}.
TwoSelArgs ==
  {[has |-> {"r", "w"}, rfds |-> <<1>>, wfds |-> <<3>>, efds |-> << >>, rc |-> -1],
   [has |-> {"w"}, rfds |-> << >>, wfds |-> <<1>>, efds |-> << >>, rc |-> -1]}

\* SELECT events the caller keeps allocated at once.
NumSelEvents == 2

TwoSelEvent ==
  /\ Cardinality(DOMAIN ev) < NumSelEvents
  /\ \E a \in TwoSelArgs : pth_event([kind |-> "SELECT", mods |-> {}], a, "none")
  /\ Quiet

TwoSelNext == TwoSelEvent \/ SelCall \/ SelReturn \/ SelNet

SpecTwoSelect == Init /\ [][TwoSelNext]_vars

\* The wait has marked a SELECT event whose write set now holds a socket the
\* caller had put in its read set only.
ForeignDescriptor ==
  /\ Waited
  /\ \E n \in SelectEvents :
       /\ ev[n].status = PTH_STATUS_OCCURRED
       /\ w_pre.ev[n].sel.wfds = <<3>>
       /\ ev[n].sel.wfds = <<1>>

(* ------------------------------------------------------------------ *)
(* C40: the slots of the wait arrays.                                   *)
(* ------------------------------------------------------------------ *)
\* do_pth_wait has passed its capacity check on a ring and has filled its
\* arrays: it is blocked in WaitForMultipleObjects or has returned from it.
PastCapacityCheck == w_ev # NULL /\ (w_pc = "blocked" \/ Waited)

\* C40: in a wait that passed the capacity check every event of the ring has
\* at most one slot of the wait arrays: the filled slots are not more than
\* the events of the ring and not more than MAXIMUM_WAIT_OBJECTS/2, every
\* slot belongs to an event of the ring and no two to the same one, and the
\* count the wait returns is not more than the events of the ring.
C40_Slots ==
  PastCapacityCheck =>
    LET R == RingOf(ev, w_ev)
    IN /\ Len(waitbuf) = Len(evarray)
       /\ Len(evarray) <= Cardinality(R)
       /\ Len(evarray) <= MAXIMUM_WAIT_OBJECTS \div 2
       /\ \A i \in 1..Len(evarray) : evarray[i] \in R
       /\ \A i, j \in 1..Len(evarray) : evarray[i] = evarray[j] => i = j
       /\ Waited => ret <= Cardinality(R)

\* A wait on a ring of exactly MAXIMUM_WAIT_OBJECTS/2 TIME events has
\* returned 2 with every slot of the arrays filled.
C40_Witness ==
  /\ Waited
  /\ w_ev # NULL
  /\ Cardinality(RingOf(ev, w_ev)) = MAXIMUM_WAIT_OBJECTS \div 2
  /\ Len(evarray) = MAXIMUM_WAIT_OBJECTS \div 2
  /\ ret = 2

\* A wait has returned for a ring with an event that has no slot.
FewerSlotsThanEvents ==
  /\ Waited
  /\ w_ev # NULL
  /\ Len(evarray) < Cardinality(RingOf(ev, w_ev))
  /\ ret >= 1

====
